---- MODULE Spec2Model ----
(***************************************************************************)
(* Model of the wl-reporting synchronisation engine: the sink (lib/db.js,  *)
(* flat Google-Sheets version and relational Postgres version), the cursor *)
(* helpers (lib/util.js), the orchestrator (helpers/run-etl.js) and the    *)
(* entry points that call it.                                              *)
(***************************************************************************)
EXTENDS Integers, Sequences, FiniteSets, TLC

\* ------------------------------------------------------------------------
\* Bounds of the model
\* ------------------------------------------------------------------------
MaxBatch == 2        \* longest batch handed to upsert by the sink driver
MaxCalls == 2        \* number of upsert calls of the sink driver
MaxPages == 2        \* pages a provider holds at most
PageSize == 2        \* records of a full page (limit=100, scaled down)
MaxFaults == 1       \* sources hit by a fault in one invocation, at most
MaxRuns == 2         \* invocations of the cursor-persisting entry points
MaxList == 3         \* longest list of source identifiers in a request body
DayMs == 2           \* clock units per UTC day (86,400,000 ms, scaled down)
MaxTicks == 1        \* clock ticks after the first instant
MaxId == 2           \* largest max_id the storefront answers
MaxDates == 2        \* changed dates inside the window, at most
MaxTasks == 2        \* upsert calls that run concurrently

\* JS null / undefined (Array.prototype.join prints both as "")
NULL == "<null>"

\* ------------------------------------------------------------------------
\* State
\* ------------------------------------------------------------------------
VARIABLES
  backend,      \* which lib/db.js is deployed: "flat" or "relational"
  tabs,         \* flat sink: titles of the tabs that exist in the spreadsheet
  store,        \* collection -> sequence of stored rows (sheet rows / table rows)
  last,         \* sink driver: record of the latest upsert call
  cursorImpl,   \* which cursor helpers are deployed: "upsert" or "disabled"
  npages,       \* number of pages every provider holds for the window
  now,          \* the clock (new Date(), dayjs.utc())
  inv,          \* the current (or latest) invocation of an entry point
  results,      \* the per-source result map of that invocation
  log,          \* per source of that invocation: what its run did
  doc,          \* lib/db.js module state: docPromise / docInstance
  tasks,        \* concurrent callers of the flat sink, at their await points
  wire,         \* one client run at the grain of its requests and responses
  eval          \* the latest evaluation of a row mapping or a window computation

sinkVars == <<backend, tabs, store>>
runVars == <<cursorImpl, npages, now, inv, results, log, eval>>
stepVars == <<doc, tasks, wire, eval>>
vars == <<backend, tabs, store, last, cursorImpl, npages, now, inv, results, log,
          doc, tasks, wire, eval>>

\* let docPromise = null / let docInstance = null: nothing constructed yet;
\* impl tells which getDoc is deployed, "promise" (lib/db.js) or "instance"
\* (the version that keeps the document itself)
NoDoc(impl) == [impl |-> impl, state |-> "null", built |-> 0, loads |-> 0]

\* no client run in progress
NoWire ==
  [client |-> "none", pc |-> "done", events |-> <<>>, inflight |-> 0, nd |-> 0,
   d |-> 1, cursor |-> 0, resp |-> [maxId |-> 0, n |-> 0]]

\* nothing evaluated yet
NoEval == [fn |-> "none"]

\* the specifications that take a whole call as one step leave these alone
NoSteps == doc = NoDoc("promise") /\ tasks = <<>> /\ wire = NoWire /\ eval = NoEval

\* ------------------------------------------------------------------------
\* Helpers
\* ------------------------------------------------------------------------
Range(s) == {s[i] : i \in DOMAIN s}

\* row[col] of a JS object: undefined when the property is absent
Get(row, col) == IF col \in DOMAIN row THEN row[col] ELSE NULL

\* Array.prototype.join('||') over the key values: null and undefined print
\* as the empty string
CellStr(v) == IF v = NULL THEN "" ELSE v

RECURSIVE JoinKey(_)
JoinKey(vals) ==
  IF Len(vals) = 0 THEN ""
  ELSE IF Len(vals) = 1 THEN CellStr(vals[1])
  ELSE CellStr(vals[1]) \o "||" \o JoinKey(Tail(vals))

\* conflictCols.map(col => row[col]).join('||')
RowKey(row, conflictCols) ==
  JoinKey([i \in 1..Len(conflictCols) |-> Get(row, conflictCols[i])])

\* projection of a row onto the key columns, as values
KeyProj(row, conflictCols) ==
  [i \in 1..Len(conflictCols) |-> Get(row, conflictCols[i])]

\* TAB_MAPPING[table] || table
TAB_MAPPING ==
  [stripe_orders |-> "Stripe", meta_insights |-> "Meta",
   tiktok_insights |-> "TikTok", mailerlite_subscribers |-> "MailerLite",
   mailerlite_group_memberships |-> "MailerLite_Groups",
   steam_sales |-> "Steam_Sales"]

TabName(table) ==
  IF table \in DOMAIN TAB_MAPPING THEN TAB_MAPPING[table] ELSE table

\* ------------------------------------------------------------------------
\* Flat tabular sink (Google Sheets): lib/db.js upsert, lines 44-94
\* ------------------------------------------------------------------------
\* the sheet row built from a batch row: one cell per data column
SheetRow(row, dataCols) == [c \in Range(dataCols) |-> Get(row, c)]

\* (mutant) the loop without existingKeys.add(key)
RECURSIVE FlatNewRowsNoAdd(_, _, _, _)
FlatNewRowsNoAdd(rows, existingKeys, conflictCols, dataCols) ==
  IF Len(rows) = 0 THEN <<>>
  ELSE IF RowKey(rows[1], conflictCols) \notin existingKeys
       THEN <<SheetRow(rows[1], dataCols)>> \o
            FlatNewRowsNoAdd(Tail(rows), existingKeys, conflictCols, dataCols)
       ELSE FlatNewRowsNoAdd(Tail(rows), existingKeys, conflictCols, dataCols)

\* the loop over the batch: rows whose key is not in existingKeys are
\* collected, and their key is added to existingKeys
RECURSIVE FlatNewRows(_, _, _, _)
FlatNewRows(rows, existingKeys, conflictCols, dataCols) ==
  IF Len(rows) = 0 THEN <<>>
  ELSE LET key == RowKey(rows[1], conflictCols) IN
       IF key \notin existingKeys
       THEN <<SheetRow(rows[1], dataCols)>> \o
            FlatNewRows(Tail(rows), existingKeys \cup {key}, conflictCols, dataCols)
       ELSE FlatNewRows(Tail(rows), existingKeys, conflictCols, dataCols)

\* (mutant) the flat upsert without the early return on an empty batch: the
\* document is opened and the sheet read whatever the batch
FlatUpsertNoGuard(st, table, conflictCols, dataCols, rows, up) ==
  IF ~up THEN [store |-> st, rowCount |-> 0, err |-> TRUE]
  ELSE IF TabName(table) \notin tabs
       THEN [store |-> st, rowCount |-> 0, err |-> FALSE]
  ELSE LET existingRows == st[table]
           existingKeys == {RowKey(existingRows[i], conflictCols) :
                              i \in DOMAIN existingRows}
           newRows == FlatNewRows(rows, existingKeys, conflictCols, dataCols)
       IN [store |-> [st EXCEPT ![table] = existingRows \o newRows],
           rowCount |-> Len(newRows), err |-> FALSE]

\* (mutant) the flat upsert reporting the length of the batch
FlatUpsertBatchCount(st, table, conflictCols, dataCols, rows, up) ==
  IF Len(rows) = 0 THEN [store |-> st, rowCount |-> 0, err |-> FALSE]
  ELSE IF ~up THEN [store |-> st, rowCount |-> 0, err |-> TRUE]
  ELSE IF TabName(table) \notin tabs
       THEN [store |-> st, rowCount |-> 0, err |-> FALSE]
  ELSE LET existingRows == st[table]
           existingKeys == {RowKey(existingRows[i], conflictCols) :
                              i \in DOMAIN existingRows}
           newRows == FlatNewRows(rows, existingKeys, conflictCols, dataCols)
       IN [store |-> [st EXCEPT ![table] = existingRows \o newRows],
           rowCount |-> Len(rows), err |-> FALSE]

\* result: the sheet after the call, the reported rowCount, and whether the
\* call rejected (err); up = the spreadsheet API answers
FlatUpsert(st, table, conflictCols, dataCols, rows, up) ==
  IF Len(rows) = 0 THEN [store |-> st, rowCount |-> 0, err |-> FALSE]
  ELSE IF ~up THEN [store |-> st, rowCount |-> 0, err |-> TRUE]
  ELSE IF TabName(table) \notin tabs
       THEN [store |-> st, rowCount |-> 0, err |-> FALSE]
  ELSE LET existingRows == st[table]
           existingKeys == {RowKey(existingRows[i], conflictCols) :
                              i \in DOMAIN existingRows}
           newRows == FlatNewRows(rows, existingKeys, conflictCols, dataCols)
       IN [store |-> [st EXCEPT ![table] = existingRows \o newRows],
           rowCount |-> Len(newRows), err |-> FALSE]

\* ------------------------------------------------------------------------
\* Relational sink (Postgres): lib/db.js upsert, lines 131-161
\* INSERT ... ON CONFLICT (conflictCols) DO UPDATE SET c = EXCLUDED.c
\* ------------------------------------------------------------------------
\* allCols = [...new Set([...conflictCols, ...cols])]
AllCols(conflictCols, dataCols) == Range(conflictCols) \cup Range(dataCols)

\* values.push(row[c] ?? null) for every column of allCols
InsertRow(row, conflictCols, dataCols) ==
  [c \in AllCols(conflictCols, dataCols) |-> Get(row, c)]

\* the statement is rejected as a whole when a key column is NULL (the
\* conflict target is the primary key) or when two rows of the VALUES list
\* have the same key ("ON CONFLICT DO UPDATE command cannot affect row a
\* second time")
RelRejects(rows, conflictCols) ==
  \/ \E i \in DOMAIN rows : \E j \in 1..Len(conflictCols) :
        Get(rows[i], conflictCols[j]) = NULL
  \/ \E i, j \in DOMAIN rows :
        i # j /\ KeyProj(rows[i], conflictCols) = KeyProj(rows[j], conflictCols)

\* one row of the VALUES list applied to the table: update in place the data
\* columns outside the key, or insert
RelApplyRow(table, row, conflictCols, dataCols) ==
  LET new == InsertRow(row, conflictCols, dataCols)
      hit == {i \in DOMAIN table :
                KeyProj(table[i], conflictCols) = KeyProj(new, conflictCols)}
  IN IF hit = {} THEN Append(table, new)
     ELSE [i \in DOMAIN table |->
             IF i \in hit
             THEN [c \in DOMAIN table[i] |->
                     IF c \in Range(dataCols) /\ c \notin Range(conflictCols)
                     THEN new[c] ELSE table[i][c]]
             ELSE table[i]]

RECURSIVE RelApply(_, _, _, _)
RelApply(table, rows, conflictCols, dataCols) ==
  IF Len(rows) = 0 THEN table
  ELSE RelApply(RelApplyRow(table, rows[1], conflictCols, dataCols),
                Tail(rows), conflictCols, dataCols)

\* rowCount of the pg result: rows inserted or updated by the statement
RelUpsert(st, table, conflictCols, dataCols, rows, up) ==
  IF Len(rows) = 0 THEN [store |-> st, rowCount |-> 0, err |-> FALSE]
  ELSE IF ~up \/ RelRejects(rows, conflictCols)
       THEN [store |-> st, rowCount |-> 0, err |-> TRUE]
  ELSE [store |-> [st EXCEPT ![table] =
                     RelApply(st[table], rows, conflictCols, dataCols)],
        rowCount |-> Len(rows), err |-> FALSE]

\* the sink contract: upsert(table, conflictCols, dataCols, rows)
upsert(st, table, conflictCols, dataCols, rows, up) ==
  IF backend = "flat"
  THEN FlatUpsert(st, table, conflictCols, dataCols, rows, up)
  ELSE RelUpsert(st, table, conflictCols, dataCols, rows, up)

\* ------------------------------------------------------------------------
\* Sink driver: a caller that hands arbitrary batches to upsert, one call
\* after the other (no two calls overlap in time)
\* ------------------------------------------------------------------------
SinkTable == "t"
SinkKeyCols == <<"k1", "k2">>
SinkDataCols == <<"k1", "k2", "v">>
Collections ==
  {SinkTable, "etl_cursors", "stripe_orders", "meta_insights", "tiktok_insights",
   "mailerlite_subscribers", "mailerlite_group_memberships", "steam_sales"}

\* before any entry point was invoked
NoInvocation ==
  [pc |-> "idle", entry |-> "none", range |-> [sinceUtc |-> 0, untilUtc |-> 0],
   sources |-> <<>>, persistCursor |-> FALSE, idx |-> 1, faults |-> 0,
   runs |-> 0, pre |-> <<>>, rerun |-> FALSE, stored |-> 0, prev |-> <<>>]

SinkRows ==
  {[k1 |-> "a", k2 |-> "c", v |-> "x"], [k1 |-> "a", k2 |-> "c", v |-> "y"],
   [k1 |-> "b", k2 |-> "c", v |-> "x"], [k1 |-> "a", k2 |-> NULL, v |-> "x"]}

RECURSIVE SeqsUpTo(_, _)
SeqsUpTo(S, n) ==
  IF n = 0 THEN {<<>>}
  ELSE LET shorter == SeqsUpTo(S, n - 1) IN
       shorter \cup {Append(q, x) : q \in {p \in shorter : Len(p) = n - 1}, x \in S}

SinkBatches == SeqsUpTo(SinkRows, MaxBatch)

\* no call yet
NoCall ==
  [n |-> 0, rows |-> <<>>, up |-> TRUE, rowCount |-> 0, err |-> FALSE,
   stored |-> 0, replay |-> FALSE, prevErr |-> FALSE, prevStored |-> 0]

InitSink ==
  /\ backend \in {"flat", "relational"}
  /\ tabs = {SinkTable}
  /\ store = [c \in Collections |-> <<>>]
  /\ last = NoCall
  /\ cursorImpl = "upsert"
  /\ npages = 0
  /\ now = 0
  /\ inv = NoInvocation
  /\ results = [x \in {} |-> 0]
  /\ log = [x \in {} |-> 0]
  /\ NoSteps

\* one upsert call of the driver; replay records that the batch is the one of
\* the call before, prevStored the number of stored rows that call left
SinkUpsert(rows, up) ==
  LET r == upsert(store, SinkTable, SinkKeyCols, SinkDataCols, rows, up)
  IN /\ last.n < MaxCalls
     /\ store' = r.store
     /\ last' = [n |-> last.n + 1, rows |-> rows, up |-> up,
                 rowCount |-> r.rowCount,
                 err |-> r.err, stored |-> Len(r.store[SinkTable]),
                 replay |-> (last.n > 0 /\ rows = last.rows),
                 prevErr |-> last.err, prevStored |-> last.stored]
     /\ UNCHANGED <<backend, tabs>>
     /\ UNCHANGED runVars
     /\ UNCHANGED stepVars

NextSink == \E rows \in SinkBatches, up \in BOOLEAN : SinkUpsert(rows, up)

SpecSink == InitSink /\ [][NextSink]_vars

\* the driver with one row per call, the rows including an empty key value
\* and key values that contain the separator of the joined key
KeyRows ==
  SinkRows \cup
    {[k1 |-> "a", k2 |-> "", v |-> "x"],
     [k1 |-> "a", k2 |-> "c||c", v |-> "x"], [k1 |-> "a||c", k2 |-> "c", v |-> "x"]}

NextKeys == \E r \in KeyRows, up \in BOOLEAN : SinkUpsert(<<r>>, up)

SpecKeys == InitSink /\ [][NextKeys]_vars

\* ------------------------------------------------------------------------
\* Properties of the sink
\* ------------------------------------------------------------------------
StoredKeys == {KeyProj(store[SinkTable][i], SinkKeyCols) : i \in DOMAIN store[SinkTable]}

RowsWithKey(k) ==
  {i \in DOMAIN store[SinkTable] : KeyProj(store[SinkTable][i], SinkKeyCols) = k}

BatchHasDuplicateKey(rows) ==
  \E i, j \in DOMAIN rows :
     i # j /\ KeyProj(rows[i], SinkKeyCols) = KeyProj(rows[j], SinkKeyCols)

\* C1: idempotence of the sink. When the latest call repeats the batch of the
\* call before it and both calls completed, the number of stored rows is the
\* one the first call left and the second call reports rowCount = 0.
C1_SecondCallWritesNothing ==
  (last.replay /\ ~last.prevErr /\ ~last.err)
    => (last.stored = last.prevStored /\ last.rowCount = 0)

\* C2: dedup within a batch. A call whose batch holds two rows with the same
\* key projection, made while the backing store answers, does not fail and
\* leaves exactly one stored row for every key of the batch.
C2_DuplicateKeysInBatchStoredOnce ==
  (last.n > 0 /\ last.up /\ BatchHasDuplicateKey(last.rows))
    => /\ ~last.err
       /\ \A i \in DOMAIN last.rows :
            Cardinality(RowsWithKey(KeyProj(last.rows[i], SinkKeyCols))) = 1

\* C3: key uniqueness. Starting from an empty collection, after any sequence
\* of upsert calls that do not overlap in time, no two stored rows have the
\* same projection onto the key columns.
C3_KeyUnique ==
  \A i, j \in DOMAIN store[SinkTable] :
     i # j => KeyProj(store[SinkTable][i], SinkKeyCols)
                # KeyProj(store[SinkTable][j], SinkKeyCols)

\* C3 witness: a second call that repeated a two-row batch with one key
\* twice, on a collection that holds two rows
C3_Witness ==
  /\ last.n >= 2 /\ ~last.err /\ last.up
  /\ Len(last.rows) = 2 /\ BatchHasDuplicateKey(last.rows)
  /\ Len(store[SinkTable]) >= 2

\* C13: newer write wins. After a call that completed on a batch without
\* two rows of one key, every stored row that has the key of a batch row
\* carries that batch row's value in the non-key column v, whether the key
\* was stored before the call or not.
C13_NewerWriteWins ==
  (last.n > 0 /\ last.up /\ ~last.err /\ ~BatchHasDuplicateKey(last.rows))
    => \A i \in DOMAIN last.rows :
         \A j \in RowsWithKey(KeyProj(last.rows[i], SinkKeyCols)) :
            store[SinkTable][j].v = last.rows[i].v

\* C14: empty batch is a no-op. A call with an empty batch reports rowCount 0,
\* does not raise, and leaves every collection as it was, whether the backing
\* store answers or not (it is neither read nor written).
C14_EmptyBatchStep ==
  (last'.n = last.n + 1 /\ last'.rows = <<>>)
    => (store' = store /\ last'.rowCount = 0 /\ ~last'.err)

C14_EmptyBatchNoOp == [][C14_EmptyBatchStep]_vars

\* C14 witness: an empty batch was handed over while the backing store did
\* not answer and the collection held rows
C14_Witness ==
  /\ last.n >= 2 /\ last.rows = <<>> /\ ~last.up
  /\ ~last.err /\ last.rowCount = 0 /\ Len(store[SinkTable]) > 0

\* C39: the flat sink is append-only. Every upsert call leaves the rows
\* stored before it in place and unchanged, with the rows it adds after them,
\* leaves every other collection as it was, and reports as rowCount the
\* number of rows it added.
C39_AppendOnlyStep ==
  (backend = "flat" /\ last'.n = last.n + 1)
    => /\ Len(store'[SinkTable]) >= Len(store[SinkTable])
       /\ SubSeq(store'[SinkTable], 1, Len(store[SinkTable])) = store[SinkTable]
       /\ \A c \in Collections \ {SinkTable} : store'[c] = store[c]
       /\ last'.rowCount = Len(store'[SinkTable]) - Len(store[SinkTable])

C39_AppendOnly == [][C39_AppendOnlyStep]_vars

\* C39 witness: a call on a sheet that held rows, with a batch of one stored
\* key and one new key, which added one row
C39_Witness ==
  /\ backend = "flat" /\ last.n >= 2 /\ last.up /\ ~last.err
  /\ Len(last.rows) = 2 /\ last.rowCount = 1
  /\ last.prevStored > 0 /\ last.stored = last.prevStored + 1

\* C35: key identity in the flat sink is exact. A call that completes on an
\* existing tab stores every batch row whose key projection differs from the
\* key projection of every row stored before the call.
C35_ExactKeyStep ==
  (backend = "flat" /\ last'.n = last.n + 1 /\ last'.up /\ ~last'.err)
    => \A i \in DOMAIN last'.rows :
         KeyProj(last'.rows[i], SinkKeyCols) \notin StoredKeys
           => KeyProj(last'.rows[i], SinkKeyCols) \in StoredKeys'

C35_ExactKey == [][C35_ExactKeyStep]_vars

\* ------------------------------------------------------------------------
\* Providers, as the clients see them.  Every provider holds npages pages
\* for the requested window, full pages of PageSize records and a last page
\* of one record.  The environment of one source
\* run, e = [fault, at]: "none"; "config" (credentials absent); "http" (the
\* at-th request gets a non-2xx status with a JSON error body); "nonjson"
\* (the at-th request gets a non-2xx status with a non-JSON body); "sink" (the
\* at-th batch write is rejected by the backing store); "cursor" (the cursor
\* write is rejected by the backing store); "endless" (every response of the
\* page-link provider carries a next link, the pages after the last one
\* being empty).
\* ------------------------------------------------------------------------
Rec(p) == "r" \o ToString(p)

\* record i of page p
RecAt(p, i) == Rec(p) \o "." \o ToString(i)

\* the records of page p of a provider: every page but the last is full, the
\* last one holds a single record
PageLen(p) == IF p < npages THEN PageSize ELSE IF p = npages THEN 1 ELSE 0

Data(p) == [i \in 1..PageLen(p) |-> RecAt(p, i)]

\* all the records a paginated provider holds
AllRecords == {RecAt(p, i) : p \in 1..npages, i \in 1..PageSize} \cap
              UNION {Range(Data(p)) : p \in 1..npages}

NumRecords == Cardinality(AllRecords)

Status(e, n) == IF e.fault \in {"http", "nonjson"} /\ e.at = n THEN e.fault ELSE "ok"

SinkUp(e, k) == ~(e.fault = "sink" /\ e.at = k)

\* what a client hands back: the store it leaves, whether it threw, its
\* result object, and the numbers of provider requests and batch writes made
Returned(st, res, reqs, ups) ==
  [store |-> st, thrown |-> FALSE, res |-> res, msg |-> "", reqs |-> reqs, ups |-> ups]

Thrown(st, msg, reqs, ups) ==
  [store |-> st, thrown |-> TRUE, res |-> [ok |-> FALSE], msg |-> msg,
   reqs |-> reqs, ups |-> ups]

SinkError == "sink write failed"

\* ---- etlStripe: opaque-cursor pagination, one upsert per page ------------
StripeCols == <<"id", "checkout_session_id", "raw", "ingested_at">>

StripeRow(r) == [id |-> r, checkout_session_id |-> r, raw |-> r]

\* (mutant) the loop ignores has_more and stops after the page it fetched
StripeLoopOnePage(st, p, total, e) ==
  IF Status(e, p) # "ok"
  THEN Thrown(st, "Stripe 500", p, p - 1)
  ELSE LET Written(w, n) ==
             IF w.err THEN Thrown(w.store, SinkError, p, p)
             ELSE Returned(w.store, [ok |-> TRUE, rows |-> total + n],
                           p, IF n = 0 THEN p - 1 ELSE p)
           Page(batch) ==
             Written(upsert(st, "stripe_orders", <<"id">>, StripeCols, batch,
                            SinkUp(e, p)),
                     Len(batch))
       IN Page([i \in DOMAIN Data(p) |-> StripeRow(Data(p)[i])])

\* page p: w = what the upsert of the page's batch answered
RECURSIVE StripeLoop(_, _, _, _)
StripeLoop(st, p, total, e) ==
  IF Status(e, p) # "ok"
  THEN Thrown(st, IF Status(e, p) = "http" THEN "Stripe 500" ELSE "Stripe 502",
              p, p - 1)
  ELSE LET Written(w, n) ==
             IF w.err THEN Thrown(w.store, SinkError, p, p)
             ELSE IF p < npages THEN StripeLoop(w.store, p + 1, total + n, e)
             ELSE Returned(w.store, [ok |-> TRUE, rows |-> total + n],
                           p, IF n = 0 THEN p - 1 ELSE p)
           Page(batch) ==
             Written(upsert(st, "stripe_orders", <<"id">>, StripeCols, batch,
                            SinkUp(e, p)),
                     Len(batch))
       IN Page([i \in DOMAIN Data(p) |-> StripeRow(Data(p)[i])])

\* (mutant) no check of the secret key before the first request
etlStripeUnchecked(st, e) == StripeLoop(st, 1, 0, e)

etlStripe(st, e) ==
  IF e.fault = "config"
  THEN Returned(st, [ok |-> FALSE, msg |-> "Missing STRIPE_SECRET_KEY"], 0, 0)
  ELSE StripeLoop(st, 1, 0, e)

\* ---- etlMeta: page-link pagination, rows accumulated, one upsert ---------
MetaPageCap == 20

MetaKey == <<"date", "account_id", "adset_id", "country">>
MetaCols == <<"date", "account_id", "country", "adset_id", "raw", "ingested_at">>

MetaRow(r) ==
  [date |-> r, account_id |-> "1", country |-> "FR", adset_id |-> "as", raw |-> r]

\* the line logged after a page that carries a next link
FetchedLine(pages) == "Fetched page " \o ToString(pages) \o "..."

\* what the page loop hands over: the rows gathered, the lines logged, the
\* number of requests made
MetaStop(rows, logs, thrown, msg, reqs) ==
  [rows |-> rows, logs |-> logs, thrown |-> thrown, msg |-> msg, reqs |-> reqs]

\* paging.next of the response to the request for page p (0: none); an
\* endless provider gives a next link in every response
MetaNext(p, e) == IF p < npages \/ e.fault = "endless" THEN p + 1 ELSE 0

\* (mutant) the loop tests pages <= 20
RECURSIVE MetaLoopOverCap(_, _, _, _, _)
MetaLoopOverCap(p, pages, allRows, logs, e) ==
  IF p = 0 \/ pages > MetaPageCap
  THEN MetaStop(allRows, logs, FALSE, "", pages)
  ELSE IF Status(e, pages + 1) = "nonjson"
       THEN MetaStop(allRows, logs \cup {"non-JSON response"}, FALSE, "", pages + 1)
  ELSE IF Status(e, pages + 1) = "http"
       THEN MetaStop(allRows, logs, TRUE, "provider error", pages + 1)
  ELSE MetaLoopOverCap(MetaNext(p, e), pages + 1,
                       allRows \o [i \in DOMAIN Data(p) |-> MetaRow(Data(p)[i])],
                       IF MetaNext(p, e) # 0
                       THEN logs \cup {FetchedLine(pages + 1)} ELSE logs,
                       e)

\* p = page the next link points to (0: no next link), pages = requests made
\* while (nextUrl && pages < 20)
RECURSIVE MetaLoop(_, _, _, _, _)
MetaLoop(p, pages, allRows, logs, e) ==
  IF p = 0 \/ pages >= MetaPageCap
  THEN MetaStop(allRows, logs, FALSE, "", pages)
  ELSE IF Status(e, pages + 1) = "nonjson"
       THEN MetaStop(allRows, logs \cup {"non-JSON response"}, FALSE, "", pages + 1)
  ELSE IF Status(e, pages + 1) = "http"
       THEN MetaStop(allRows, logs, TRUE, "provider error", pages + 1)
  ELSE MetaLoop(MetaNext(p, e), pages + 1,
                allRows \o [i \in DOMAIN Data(p) |-> MetaRow(Data(p)[i])],
                IF MetaNext(p, e) # 0
                THEN logs \cup {FetchedLine(pages + 1)} ELSE logs,
                e)

\* (mutant) the rows gathered before a provider error are written
etlMetaEager(st, e) ==
  LET Written(l, w) ==
        Returned(w.store, [ok |-> ~l.thrown /\ ~w.err, rows |-> w.rowCount,
                           msg |-> "Meta Sync Error: " \o l.msg, logs |-> l.logs],
                 l.reqs, IF Len(l.rows) > 0 THEN 1 ELSE 0)
      Fetched(l) ==
        Written(l, upsert(st, "meta_insights", MetaKey, MetaCols, l.rows,
                          SinkUp(e, 1)))
  IN IF e.fault = "config"
     THEN Returned(st, [ok |-> FALSE, msg |-> "Missing Meta token/account id",
                        logs |-> {}], 0, 0)
     ELSE Fetched(MetaLoop(1, 0, <<>>, {"Querying Meta Insights"}, e))

\* l = what the page loop gathered, w = what the upsert answered
etlMeta(st, e) ==
  IF e.fault = "config"
  THEN Returned(st, [ok |-> FALSE, msg |-> "Missing Meta token/account id",
                     logs |-> {}], 0, 0)
  ELSE LET Written(l, w) ==
             IF w.err
             THEN Returned(w.store, [ok |-> FALSE,
                                     msg |-> "Meta Sync Error: " \o SinkError,
                                     logs |-> l.logs \cup {"Sending rows"}],
                           l.reqs, 1)
             ELSE Returned(w.store, [ok |-> TRUE, rows |-> w.rowCount,
                                     logs |-> l.logs \cup {"Sending rows"}],
                           l.reqs, 1)
           Fetched(l) ==
             IF l.thrown
             THEN Returned(st, [ok |-> FALSE, msg |-> "Meta Sync Error: " \o l.msg,
                                logs |-> l.logs], l.reqs, 0)
             ELSE IF Len(l.rows) > 0
             THEN Written(l, upsert(st, "meta_insights", MetaKey, MetaCols, l.rows,
                                    SinkUp(e, 1)))
             ELSE Returned(st, [ok |-> TRUE, rows |-> 0,
                                logs |-> l.logs \cup {"No data found."}],
                           l.reqs, 0)
       IN Fetched(MetaLoop(1, 0, <<>>, {"Querying Meta Insights"}, e))

\* ---- etlTikTok: one request, one upsert ----------------------------------
TikTokKey == <<"date", "advertiser_id", "ad_id">>
TikTokCols == <<"date", "advertiser_id", "ad_id", "raw", "ingested_at">>

TikTokRow(r) == [date |-> r, advertiser_id |-> "1", ad_id |-> "ad", raw |-> r]

etlTikTok(st, e) ==
  IF e.fault = "config"
  THEN Returned(st, [ok |-> FALSE, msg |-> "Missing TikTok token or advertiser id"],
                0, 0)
  ELSE IF Status(e, 1) # "ok"
  THEN Thrown(st, IF Status(e, 1) = "http" THEN "TikTok 500" ELSE "TikTok 502", 1, 0)
  ELSE LET Written(w, n) ==
             IF w.err THEN Thrown(w.store, SinkError, 1, 1)
             ELSE Returned(w.store, [ok |-> TRUE, rows |-> n], 1,
                           IF n = 0 THEN 0 ELSE 1)
           Got(rows) ==
             Written(upsert(st, "tiktok_insights", TikTokKey, TikTokCols, rows,
                            SinkUp(e, 1)),
                     Len(rows))
       IN Got([i \in 1..npages |-> TikTokRow(Rec(i))])

\* ---- etlMailerLite: groups request, subscriber pages with one upsert per
\* page, then the membership snapshot of the first groups -------------------
MailerLitePageCap == 20

MailerLiteCols == <<"subscriber_id", "created_at", "country", "raw", "ingested_at">>
MembershipKey == <<"subscriber_id", "group_id">>
MembershipCols == <<"subscriber_id", "group_id", "added_at">>

\* the subscribers feed is ordered by descending creation time: the newest
\* subscriber was created at instant DayMs, every next one an instant earlier
CreatedAt(p, i) == DayMs - ((p - 1) * PageSize + i - 1)

\* data.data of the response to the request for page p of the feed
\* the first record of a page has no fields.country and an ip_address, the
\* others name their country
MailerLitePage(p) ==
  [i \in 1..PageLen(p) |->
     [id |-> RecAt(p, i), created_at |-> CreatedAt(p, i),
      country |-> IF i = 1 THEN NULL ELSE "FR",
      ip_address |-> "ip." \o RecAt(p, i)]]

\* the ways the lookup at api.country.is fails: the request is rejected, the
\* body is not JSON (geoResp.json() throws), the body is JSON but no array
\* (geoData.forEach is not a function); each throws inside the inner try
GeoKinds == <<"request error", "non-JSON body", "unexpected shape">>

\* ips of the relevant subscribers without a country of their own
ipsToLookup(relevantSubs) ==
  {relevantSubs[i].ip_address :
     i \in {j \in DOMAIN relevantSubs : relevantSubs[j].country = NULL}}

\* (mutant) the map is filled whatever the lookup did
ipToCountryMapFilled(ips, e) == [ip \in ips |-> "US"]

\* the map after the inner try / catch: one country per ip the lookup
\* resolved, nothing when it threw (the catch only logs a warning)
ipToCountryMap(ips, e) ==
  IF e.fault = "geo" THEN [ip \in {} |-> "US"] ELSE [ip \in ips |-> "US"]

\* s.fields?.country || ipToCountryMap[s.ip_address] || null
MailerLiteRow(s, geo) ==
  [subscriber_id |-> s.id, created_at |-> s.created_at,
   country |-> IF s.country # NULL THEN s.country
               ELSE IF s.ip_address \in DOMAIN geo THEN geo[s.ip_address]
               ELSE NULL,
   raw |-> s.id]
MembershipRow(r, g) == [subscriber_id |-> r, group_id |-> g, added_at |-> NULL]

\* (mutant) the filter keeps every subscriber of the page
AllSubs(subs, sinceUtc, untilUtc) == subs

\* subs.filter(s => created >= sinceUtc && created <= untilUtc)
RelevantSubs(subs, sinceUtc, untilUtc) ==
  SelectSeq(subs, LAMBDA s : s.created_at >= sinceUtc /\ s.created_at <= untilUtc)

\* the page the loop asks for after page p whose records are subs (0: none):
\* none once the oldest record of the page is before the window start,
\* otherwise the one data.meta.next_cursor points to
MailerLiteNext(p, subs, sinceUtc) ==
  IF subs[Len(subs)].created_at < sinceUtc THEN 0
  ELSE IF p < npages THEN p + 1 ELSE 0

\* p = page the next cursor points to (0: none); reqs, ups = requests and
\* batch writes made so far by this run
RECURSIVE MailerLiteSubs(_, _, _, _, _, _, _, _, _)
MailerLiteSubs(st, p, pageCount, totalSynced, reqs, ups, e, sinceUtc, untilUtc) ==
  IF p = 0 \/ pageCount >= MailerLitePageCap
  THEN [store |-> st, thrown |-> FALSE, msg |-> "", total |-> totalSynced,
        reqs |-> reqs, ups |-> ups]
  ELSE IF Status(e, reqs + 1) # "ok"
  THEN [store |-> st, thrown |-> TRUE,
        msg |-> IF Status(e, reqs + 1) = "http" THEN "provider error"
                ELSE "Unexpected token",
        total |-> totalSynced, reqs |-> reqs + 1, ups |-> ups]
  ELSE IF Len(MailerLitePage(p)) = 0
  THEN [store |-> st, thrown |-> FALSE, msg |-> "", total |-> totalSynced,
        reqs |-> reqs + 1, ups |-> ups]
  ELSE LET Written(w, n) ==
             IF w.err
             THEN [store |-> w.store, thrown |-> TRUE, msg |-> SinkError,
                   total |-> totalSynced, reqs |-> reqs + 1, ups |-> ups + 1]
             ELSE MailerLiteSubs(w.store,
                                 MailerLiteNext(p, MailerLitePage(p), sinceUtc),
                                 pageCount + 1, totalSynced + n,
                                 reqs + 1, IF n > 0 THEN ups + 1 ELSE ups, e,
                                 sinceUtc, untilUtc)
           Page(batchToUpsert) ==
             IF Len(batchToUpsert) = 0
             THEN Written([store |-> st, rowCount |-> 0, err |-> FALSE], 0)
             ELSE Written(upsert(st, "mailerlite_subscribers", <<"subscriber_id">>,
                                 MailerLiteCols, batchToUpsert, SinkUp(e, ups + 1)),
                          Len(batchToUpsert))
           Located(relevantSubs, geo) ==
             Page([i \in DOMAIN relevantSubs |-> MailerLiteRow(relevantSubs[i], geo)])
           Filtered(relevantSubs) ==
             Located(relevantSubs, ipToCountryMap(ipsToLookup(relevantSubs), e))
       IN Filtered(RelevantSubs(MailerLitePage(p), sinceUtc, untilUtc))

\* the membership snapshot of one group: a non-2xx answer skips the group
MailerLiteGroup(st, g, reqs, ups, e) ==
  IF Status(e, reqs + 1) # "ok" \/ npages = 0
  THEN [store |-> st, thrown |-> FALSE, reqs |-> reqs + 1, ups |-> ups]
  ELSE LET Written(w) ==
             [store |-> w.store, thrown |-> w.err, reqs |-> reqs + 1,
              ups |-> ups + 1]
       IN Written(upsert(st, "mailerlite_group_memberships", MembershipKey,
                         MembershipCols,
                         [i \in 1..npages |-> MembershipRow(Rec(i), g)],
                         SinkUp(e, ups + 1)))

MailerLiteFailed(st, msg, reqs, ups) ==
  Returned(st, [ok |-> FALSE, msg |-> "MailerLite Sync Error: " \o msg,
                logs |-> TRUE], reqs, ups)

\* l = what the subscriber loop did, g = what the membership snapshot did
etlMailerLite(st, e) ==
  IF e.fault = "config"
  THEN Returned(st, [ok |-> FALSE, msg |-> "Missing MAILERLITE_API_KEY",
                     logs |-> TRUE], 0, 0)
  ELSE IF Status(e, 1) = "nonjson"
  THEN MailerLiteFailed(st, "Unexpected token", 1, 0)
  ELSE LET groups == IF Status(e, 1) = "http" THEN <<>> ELSE <<"g1">>
           Snapshot(l, g) ==
             IF g.thrown THEN MailerLiteFailed(g.store, SinkError, g.reqs, g.ups)
             ELSE Returned(g.store, [ok |-> TRUE, rows |-> l.total, logs |-> TRUE],
                           g.reqs, g.ups)
           Synced(l) ==
             IF l.thrown THEN MailerLiteFailed(l.store, l.msg, l.reqs, l.ups)
             ELSE IF Len(groups) = 0
             THEN Returned(l.store, [ok |-> TRUE, rows |-> l.total, logs |-> TRUE],
                           l.reqs, l.ups)
             ELSE Snapshot(l, MailerLiteGroup(l.store, groups[1], l.reqs, l.ups, e))
       IN Synced(MailerLiteSubs(st, 1, 0, 0, 1, 0, e,
                                inv.range.sinceUtc, inv.range.untilUtc))

\* ---- etlSteamSalesApi: changed dates, then per date a highwater-mark loop
SteamKey == <<"date", "app_id", "country", "currency">>
SteamCols == <<"date", "app_id", "country", "currency", "raw", "ingested_at">>

SteamRow(date, r) ==
  [date |-> date, app_id |-> "app", country |-> r, currency |-> "USD", raw |-> r]

SteamFailed(st, msg, reqs, ups) ==
  Returned(st, [ok |-> FALSE, msg |-> "Fatal Error: " \o msg, logs |-> TRUE],
           reqs, ups)

\* the loop of one date from highwatermarkId on
RECURSIVE SteamDate(_, _, _, _, _, _, _)
SteamDate(st, date, highwatermarkId, totalRows, reqs, ups, e) ==
  IF Status(e, reqs + 1) = "nonjson"
  THEN [store |-> st, thrown |-> TRUE, msg |-> "Unexpected token",
        total |-> totalRows, reqs |-> reqs + 1, ups |-> ups]
  ELSE LET answered == Status(e, reqs + 1) = "ok"
           maxId == IF ~answered THEN 0
                    ELSE IF highwatermarkId < npages THEN highwatermarkId + 1
                    ELSE highwatermarkId
           Written(w, n) ==
             IF w.err
             THEN [store |-> w.store, thrown |-> TRUE, msg |-> SinkError,
                   total |-> totalRows, reqs |-> reqs + 1,
                   ups |-> IF n > 0 THEN ups + 1 ELSE ups]
             ELSE IF maxId > highwatermarkId /\ n > 0
             THEN SteamDate(w.store, date, maxId, totalRows + w.rowCount,
                            reqs + 1, IF n > 0 THEN ups + 1 ELSE ups, e)
             ELSE [store |-> w.store, thrown |-> FALSE, msg |-> "",
                   total |-> totalRows + w.rowCount, reqs |-> reqs + 1,
                   ups |-> IF n > 0 THEN ups + 1 ELSE ups]
           Page(rawData) ==
             Written(upsert(st, "steam_sales", SteamKey, SteamCols,
                            [i \in DOMAIN rawData |-> SteamRow(date, rawData[i])],
                            SinkUp(e, ups + 1)),
                     Len(rawData))
       IN Page(IF answered THEN Data(highwatermarkId + 1) ELSE <<>>)

\* d = what the loop of the first changed date did
etlSteamSalesApi(st, e) ==
  IF e.fault = "config"
  THEN Returned(st, [ok |-> FALSE,
                     msg |-> "Steam Sales API disabled or missing env variables"],
                0, 0)
  ELSE IF Status(e, 1) = "nonjson" THEN SteamFailed(st, "Unexpected token", 1, 0)
  ELSE IF Status(e, 1) # "ok" \/ npages = 0
  THEN Returned(st, [ok |-> TRUE, rows |-> 0, logs |-> TRUE], 1, 0)
  ELSE LET Dated(d) ==
             IF d.thrown THEN SteamFailed(d.store, d.msg, d.reqs, d.ups)
             ELSE Returned(d.store,
                           [ok |-> TRUE, rows |-> d.total, logs |-> TRUE,
                            steam_raw_debug |-> TRUE], d.reqs, d.ups)
       IN Dated(SteamDate(st, "2024-01-01", 0, 0, 1, 0, e))

\* ------------------------------------------------------------------------
\* Cursor helpers: lib/util.js (over q / upsert) and the later version whose
\* helpers are disabled
\* ------------------------------------------------------------------------
\* getCursor's null
NoCursor == -1

\* q("SELECT since FROM etl_cursors WHERE source=$1"): the relational q runs
\* the query, the flat db.js answers { rowCount: 0, rows: [] } to every query
q_since(st, source) ==
  IF backend = "flat" THEN <<>>
  ELSE SelectSeq(st["etl_cursors"], LAMBDA r : r.source = source)

getCursor(st, source) ==
  IF cursorImpl = "disabled" THEN NoCursor
  ELSE IF Len(q_since(st, source)) > 0 THEN q_since(st, source)[1].since
  ELSE NoCursor

setCursor(st, source, sinceIso, up) ==
  IF cursorImpl = "disabled" THEN [store |-> st, rowCount |-> 0, err |-> FALSE]
  ELSE upsert(st, "etl_cursors", <<"source">>, <<"source", "since">>,
              <<[source |-> source, since |-> sinceIso]>>, up)

\* ------------------------------------------------------------------------
\* Orchestrator: helpers/run-etl.js
\* ------------------------------------------------------------------------
ETL_MAP == {"stripe", "meta", "tiktok", "mailerlite", "steam"}

Runner(source, st, e) ==
  CASE source = "stripe" -> etlStripe(st, e)
    [] source = "meta" -> etlMeta(st, e)
    [] source = "tiktok" -> etlTikTok(st, e)
    [] source = "mailerlite" -> etlMailerLite(st, e)
    [] source = "steam" -> etlSteamSalesApi(st, e)

NoFault == [fault |-> "none", at |-> 0]

\* (mutant) a rejection of the client is reported as an empty success
CaughtAsSuccess(r) == IF r.thrown THEN [ok |-> TRUE, rows |-> 0] ELSE r.res

\* .catch((e) => ({ ok: false, msg: e.message }))
Caught(r) == IF r.thrown THEN [ok |-> FALSE, msg |-> r.msg] ELSE r.res

EmptyMap == [x \in {} |-> 0]

Put(map, k, v) == [x \in DOMAIN map \cup {k} |-> IF x = k THEN v ELSE map[x]]

\* the environments of one run of a source: a fault hits a request or a
\* batch write that the run makes when nothing fails (clean)
Envs(source, st, persist) ==
  LET Around(clean) ==
        {NoFault, [fault |-> "config", at |-> 0]}
          \cup {[fault |-> k, at |-> n] :
                  k \in {"http", "nonjson"}, n \in 1..clean.reqs}
          \cup {[fault |-> "sink", at |-> n] : n \in 1..clean.ups}
          \cup {[fault |-> "endless", at |-> 0] : x \in
                  {y \in {1} : source = "meta"}}
          \cup {[fault |-> "geo", at |-> k] : k \in
                  {y \in DOMAIN GeoKinds : source = "mailerlite"}}
          \cup {[fault |-> "cursor", at |-> 0] : x \in
                  {y \in {1} : persist /\ clean.res.ok /\ cursorImpl = "upsert"}}
  IN Around(Runner(source, st, NoFault))

LogEntry(e, r, cursorWritten) ==
  [fault |-> e.fault, at |-> e.at, reqs |-> r.reqs, ups |-> r.ups,
   thrown |-> r.thrown, setCursor |-> cursorWritten]

Advance(i, failed) ==
  [i EXCEPT !.idx = @ + 1,
            !.pc = IF failed THEN "rejected"
                   ELSE IF i.idx + 1 > Len(i.sources) THEN "returned"
                   ELSE "running"]

\* (mutant) the cursor is written whatever the result of the source
WritesCursorAlways(persistCursor, res) == persistCursor

\* if (persistCursor && res?.ok)
WritesCursor(persistCursor, res) == persistCursor /\ res.ok

\* one source handled by the loop of runEtls, in environment e: r = what the
\* client did, res = its result after the catch, c = what setCursor answered
RunSource(source, e) ==
  LET Done(r, res, write, c) ==
        /\ results' = Put(results, source, res)
        /\ store' = c.store
        /\ log' = Put(log, source, LogEntry(e, r, write))
        /\ inv' = [Advance(inv, c.err) EXCEPT
                     !.faults = IF e = NoFault THEN @ ELSE @ + 1]
      Persist(r, res, write) ==
        Done(r, res, write,
             IF write
             THEN setCursor(r.store, source, inv.range.untilUtc, e.fault # "cursor")
             ELSE [store |-> r.store, rowCount |-> 0, err |-> FALSE])
      Settled(r, res) == Persist(r, res, WritesCursor(inv.persistCursor, res))
      Ran(r) == Settled(r, Caught(r))
  IN Ran(Runner(source, store, e))

\* one iteration of the loop of runEtls
RunEtlsStep ==
  /\ inv.pc = "running"
  /\ inv.entry # "refresh"
  /\ IF inv.sources[inv.idx] \notin ETL_MAP
     THEN /\ inv' = Advance(inv, FALSE)
          /\ UNCHANGED <<store, results, log>>
     ELSE \E e \in Envs(inv.sources[inv.idx], store, inv.persistCursor) :
            /\ e # NoFault => inv.faults < MaxFaults
            /\ RunSource(inv.sources[inv.idx], e)
  /\ UNCHANGED <<backend, tabs, last, cursorImpl, npages, now>>
  /\ UNCHANGED stepVars

\* one source handled by the loop of the refresh handler
RefreshSource(s, e) ==
  LET Ran(r) ==
        /\ results' = Put(results, s, Caught(r))
        /\ store' = r.store
        /\ log' = Put(log, s, LogEntry(e, r, FALSE))
        /\ inv' = [Advance(inv, FALSE) EXCEPT
                     !.faults = IF e = NoFault THEN @ ELSE @ + 1]
  IN Ran(Runner(s, store, e))

\* one iteration of the loop of the refresh handler (refresh.js 10-18)
RefreshStep ==
  /\ inv.pc = "running"
  /\ inv.entry = "refresh"
  /\ IF inv.sources[inv.idx] \notin {"stripe", "meta", "tiktok", "mailerlite", "steam"}
     THEN /\ inv' = Advance(inv, FALSE)
          /\ UNCHANGED <<store, results, log>>
     ELSE \E e \in Envs(inv.sources[inv.idx], store, FALSE) :
            /\ e # NoFault => inv.faults < MaxFaults
            /\ RefreshSource(inv.sources[inv.idx], e)
  /\ UNCHANGED <<backend, tabs, last, cursorImpl, npages, now>>
  /\ UNCHANGED stepVars

\* ------------------------------------------------------------------------
\* Entry points
\* ------------------------------------------------------------------------
\* (mutant) an absent since falls back to the end itself
parseRangeNoSpan(since, until) ==
  LET end == IF until # NoCursor THEN until ELSE now
  IN [sinceUtc |-> IF since # NoCursor THEN since ELSE end, untilUtc |-> end]

\* parseRange: absent since/until are NoCursor here; 30 days before the end
parseRange(since, until) ==
  LET end == IF until # NoCursor THEN until ELSE now
      start == IF since # NoCursor THEN since ELSE end - 30 * DayMs
  IN [sinceUtc |-> start, untilUtc |-> end]

Min(S) == CHOOSE x \in S : \A y \in S : x <= y

\* rangeFromCursor(sources, fallbackDays): until = now, since = the stored
\* cursor, or until minus the fallback span for a source without one
rangeFromCursor(sources, fallbackDays) ==
  LET Earliest(sinces) ==
        [sinceUtc |-> IF sinces = {} THEN now - fallbackDays * DayMs
                      ELSE Min(sinces),
         untilUtc |-> now]
  IN Earliest({IF getCursor(store, sources[i]) # NoCursor
               THEN getCursor(store, sources[i])
               ELSE now - fallbackDays * DayMs : i \in DOMAIN sources})

\* the number of data rows the sink holds
StoredRows(st) ==
  Len(st["stripe_orders"]) + Len(st["meta_insights"]) + Len(st["tiktok_insights"])
    + Len(st["mailerlite_subscribers"]) + Len(st["mailerlite_group_memberships"])
    + Len(st["steam_sales"])

\* an entry point calls runEtls (or starts its own loop) with these arguments;
\* prev keeps the result map of the invocation before it;
\* rerun records that the invocation before it returned without meeting a
\* fault and had the same window and the same sources, stored the number of
\* data rows held when the invocation starts
Invoke(entry, range, sources, persistCursor) ==
  /\ inv.pc # "running"
  /\ inv' = [pc |-> IF Len(sources) = 0 THEN "returned" ELSE "running",
             entry |-> entry, range |-> range, sources |-> sources,
             persistCursor |-> persistCursor, idx |-> 1, faults |-> 0,
             runs |-> inv.runs + 1,
             pre |-> [s \in ETL_MAP |-> getCursor(store, s)],
             rerun |-> (inv.pc = "returned" /\ inv.faults = 0
                          /\ inv.range = range /\ inv.sources = sources),
             stored |-> StoredRows(store),
             prev |-> results]
  /\ results' = EmptyMap
  /\ log' = EmptyMap
  /\ UNCHANGED <<backend, tabs, store, last, cursorImpl, npages, now>>
  /\ UNCHANGED stepVars

\* cron-hourly.mjs: the last 48 hours
CronHourlyRange == [sinceUtc |-> now - 2 * DayMs, untilUtc |-> now]

CronHourly ==
  Invoke("cron-hourly", CronHourlyRange,
         <<"stripe", "meta", "tiktok", "mailerlite">>, TRUE)

\* Date.prototype.setUTCHours(0, 0, 0, 0) and setUTCHours(23, 59, 59, 999):
\* the first and the last millisecond of the UTC day of instant t
setUTCHoursStart(t) == (t \div DayMs) * DayMs
setUTCHoursEnd(t) == (t \div DayMs) * DayMs + DayMs - 1

\* (mutant) the 24 hours that end at the invocation
CronDailyRolling == [sinceUtc |-> now - DayMs, untilUtc |-> now - 1]

\* cron-daily.mjs: yesterday is now minus 24 hours; since sets it to the start
\* of its UTC day (setUTCHours mutates the date), until to the end of that day
CronDailyRange ==
  LET yesterday == now - DayMs IN
  [sinceUtc |-> setUTCHoursStart(yesterday),
   untilUtc |-> setUTCHoursEnd(setUTCHoursStart(yesterday))]

CronDaily == Invoke("cron-daily", CronDailyRange, <<"steam">>, TRUE)

FetchLatestDefault == <<"stripe", "meta", "tiktok", "steam">>

\* fetch-latest handler
FetchLatest(sources) ==
  Invoke("fetch-latest", rangeFromCursor(sources, 30), sources, TRUE)

RefreshDefault == <<"stripe", "meta", "tiktok", "mailerlite", "steam">>

\* refresh handler
Refresh(since, until, sources) ==
  Invoke("refresh", parseRange(since, until), sources, FALSE)

\* fetch-meta / fetch-tiktok handlers: parseRange, then the client, uncaught
FetchOne(source, since, until, e) ==
  LET Ran(r) ==
        /\ inv' = [pc |-> IF r.thrown THEN "rejected" ELSE "returned",
                   entry |-> "fetch-" \o source,
                   range |-> parseRange(since, until),
                   sources |-> <<source>>, persistCursor |-> FALSE, idx |-> 2,
                   faults |-> IF e = NoFault THEN 0 ELSE 1,
                   runs |-> inv.runs + 1,
                   pre |-> [s \in ETL_MAP |-> getCursor(store, s)],
                   rerun |-> FALSE, stored |-> StoredRows(store),
                   prev |-> results]
        /\ results' = IF r.thrown THEN EmptyMap ELSE Put(EmptyMap, source, r.res)
        /\ log' = Put(EmptyMap, source, LogEntry(e, r, FALSE))
        /\ store' = r.store
  IN /\ inv.pc # "running"
     /\ Ran(Runner(source, store, e))
     /\ UNCHANGED <<backend, tabs, last, cursorImpl, npages, now>>
     /\ UNCHANGED stepVars

\* runEtls(range, sources, { persistCursor }) called directly
runEtls(range, sources, persistCursor) ==
  Invoke("runEtls", range, sources, persistCursor)

\* time passes
Tick ==
  /\ now < DayMs + MaxTicks
  /\ now' = now + 1
  /\ UNCHANGED <<backend, tabs, store, last, cursorImpl, npages, inv, results, log>>
  /\ UNCHANGED stepVars

DataTabs ==
  {"Stripe", "Meta", "TikTok", "MailerLite", "MailerLite_Groups", "Steam_Sales"}

\* the deployments: Postgres with the cursor helpers of lib/util.js; Google
\* Sheets with the same helpers, with and without an etl_cursors tab; Google
\* Sheets with the cursor helpers disabled
Deployment ==
  \/ backend = "relational" /\ cursorImpl = "upsert" /\ tabs = {}
  \/ backend = "flat" /\ cursorImpl = "upsert" /\ tabs = DataTabs \cup {"etl_cursors"}
  \/ backend = "flat" /\ cursorImpl = "upsert" /\ tabs = DataTabs
  \/ backend = "flat" /\ cursorImpl = "disabled" /\ tabs = DataTabs

\* a spreadsheet in which the tab of the payments collection was never
\* created (the case the flat upsert reports on the console)
PartialSheet ==
  /\ backend = "flat" /\ cursorImpl = "upsert"
  /\ tabs = (DataTabs \ {"Stripe"}) \cup {"etl_cursors"}

\* the backing store has the collection
SinkHas(table) == backend = "relational" \/ TabName(table) \in tabs

SourceNames == ETL_MAP \cup {"unknown"}

Singles == {<<s>> : s \in SourceNames}

\* ------------------------------------------------------------------------
\* Runs of the scheduled and cursor-driven entry points, one after the other,
\* against providers that hold one page
\* ------------------------------------------------------------------------
InitRun ==
  /\ Deployment
  /\ store = [c \in Collections |-> <<>>]
  /\ last = NoCall
  /\ npages = 1
  /\ now = DayMs
  /\ inv = NoInvocation
  /\ results = EmptyMap
  /\ log = EmptyMap
  /\ NoSteps

NextRun ==
  \/ Tick
  \/ inv.runs < MaxRuns /\ CronHourly
  \/ inv.runs < MaxRuns /\ CronDaily
  \/ inv.runs < MaxRuns /\ \E l \in {FetchLatestDefault} \cup Singles : FetchLatest(l)
  \/ RunEtlsStep

SpecRun == InitRun /\ [][NextRun]_vars

\* ------------------------------------------------------------------------
\* One invocation (runEtls on any list of sources, the refresh handler, a
\* per-source fetch handler) on a store that holds no data rows and in which
\* an earlier run may have left a cursor for every source
\* ------------------------------------------------------------------------
SourceOrder == <<"stripe", "meta", "tiktok", "mailerlite", "steam">>

\* the rows setCursor left when every source succeeded at instant 0
PriorCursors == [i \in DOMAIN SourceOrder |-> [source |-> SourceOrder[i], since |-> 0]]

\* source lists of a request body: no identifier twice
SourceLists ==
  {l \in SeqsUpTo(SourceNames, MaxList) : \A i, j \in DOMAIN l : i # j => l[i] # l[j]}

InitIso ==
  /\ (Deployment \/ PartialSheet)
  /\ \E prior \in BOOLEAN :
       store = [c \in Collections |->
                  IF /\ c = "etl_cursors" /\ prior /\ cursorImpl = "upsert"
                     /\ (backend = "relational" \/ "etl_cursors" \in tabs)
                  THEN PriorCursors ELSE <<>>]
  /\ last = NoCall
  /\ npages \in 0..MaxPages
  /\ now = DayMs
  /\ inv = NoInvocation
  /\ results = EmptyMap
  /\ log = EmptyMap
  /\ NoSteps

NextIso ==
  \/ inv.runs < 1 /\ \E l \in SourceLists, persistCursor \in BOOLEAN :
                       runEtls([sinceUtc |-> now - DayMs, untilUtc |-> now],
                               l, persistCursor)
  \/ RunEtlsStep
  \/ inv.runs < 1 /\ \E since \in {NoCursor, 0}, l \in {RefreshDefault} \cup Singles :
                       Refresh(since, NoCursor, l)
  \/ RefreshStep
  \/ inv.runs < 1 /\ \E source \in {"meta", "tiktok"}, since \in {NoCursor, 0} :
                       \E e \in Envs(source, store, FALSE) :
                          FetchOne(source, since, NoCursor, e)

SpecIso == InitIso /\ [][NextIso]_vars

\* ------------------------------------------------------------------------
\* Properties of the orchestrator and of the cursor store
\* ------------------------------------------------------------------------
\* the stored cursor rows of a source
CursorRows(st, source) == SelectSeq(st["etl_cursors"], LAMBDA r : r.source = source)

Listed == Range(inv.sources) \cap ETL_MAP

\* an error was raised while the source was processed: thrown by its client,
\* or caught by the client's own try/catch and returned as a failure
Raised(S) ==
  log[S].thrown \/ (log[S].fault \in {"http", "nonjson", "sink"} /\ ~results[S].ok)

\* the number of records the provider of a source holds for the window: the
\* TikTok report comes in one response of npages records, and the subscribers
\* feed holds records of every age
Upstream(S) ==
  IF S = "tiktok" THEN npages
  ELSE IF S = "mailerlite"
  THEN Cardinality({x \in (1..npages) \X (1..PageSize) :
                      /\ x[2] <= PageLen(x[1])
                      /\ CreatedAt(x[1], x[2]) >= inv.range.sinceUtc
                      /\ CreatedAt(x[1], x[2]) <= inv.range.untilUtc})
  ELSE NumRecords

\* C4: cursor after a run. When a runEtls call with persistCursor on a window
\* [a,b] has returned, getCursor yields b for every source whose result is a
\* success and the value it yielded before the run for every source whose
\* result is a failure.
C4_CursorAfterRun ==
  (inv.pc = "returned" /\ inv.persistCursor)
    => \A S \in DOMAIN results :
         IF results[S].ok THEN getCursor(store, S) = inv.range.untilUtc
         ELSE getCursor(store, S) = inv.pre[S]

\* C5: partial-failure isolation. In a run of runEtls or of the refresh loop
\* in which an error was raised while source A was processed, the entry of A
\* is a failed result with a message, the run is not aborted unless a cursor
\* write was rejected, and once the run has returned every other listed
\* source was run and each one that met no fault reports ok:true with the
\* number of records its provider holds.
C5_PartialFailureIsolation ==
  inv.entry \in {"runEtls", "refresh"} =>
    \A A \in DOMAIN log :
      Raised(A) =>
        /\ ~results[A].ok
        /\ "msg" \in DOMAIN results[A]
        /\ results[A].msg # ""
        /\ inv.pc = "rejected" => \E S \in DOMAIN log : log[S].fault = "cursor"
        /\ inv.pc = "returned" =>
             \A B \in Listed \ {A} :
                /\ B \in DOMAIN results
                /\ log[B].fault = "none" =>
                     /\ results[B].ok
                     /\ results[B].rows = Upstream(B)

\* C5 witness: a returned run over three sources in which the client of the
\* second one threw at its last page and the two others report every record
C5_Witness ==
  /\ inv.pc = "returned" /\ Len(inv.sources) = 3 /\ npages = MaxPages
  /\ inv.sources[2] \in DOMAIN log
  /\ log[inv.sources[2]].thrown /\ log[inv.sources[2]].at = npages
  /\ \A i \in {1, 3} :
       /\ inv.sources[i] \in DOMAIN results
       /\ results[inv.sources[i]].ok
       /\ results[inv.sources[i]].rows = Upstream(inv.sources[i])
       /\ Upstream(inv.sources[i]) > 0

\* C6: runEtls never rejects. No error raised while a source is processed,
\* the rejection of the cursor write included, makes the runEtls call reject,
\* and a call that has ended has run every listed source.
C6_RunEtlsNeverRejects ==
  inv.entry \in {"runEtls", "cron-hourly", "cron-daily", "fetch-latest"} =>
    /\ inv.pc # "rejected"
    /\ inv.pc # "running" => Listed \subseteq DOMAIN results

\* C7: a disabled source. The step of the loop that handles a source whose
\* credentials or configuration are absent makes no provider request, leaves
\* the whole store (data rows and cursor rows) as it was, and hands over to
\* the next source of the list, or returns when it was the last one.
C7_DisabledSourceStep ==
  \A S \in ETL_MAP :
    (inv.pc = "running" /\ S \notin DOMAIN log /\ S \in DOMAIN log'
       /\ log'[S].fault = "config")
      => /\ log'[S].reqs = 0
         /\ log'[S].ups = 0
         /\ store' = store
         /\ getCursor(store', S) = getCursor(store, S)
         /\ inv'.idx = inv.idx + 1
         /\ inv'.pc = IF inv.idx < Len(inv.sources) THEN "running" ELSE "returned"

C7_DisabledSourceIsolated == [][C7_DisabledSourceStep]_vars

\* C7 witness: a returned persisting run over three sources on a store that
\* held cursors, whose first source was disabled and whose two others
\* succeeded
C7_Witness ==
  /\ inv.pc = "returned" /\ inv.persistCursor /\ Len(inv.sources) = 3
  /\ inv.sources[1] \in DOMAIN log
  /\ log[inv.sources[1]].fault = "config"
  /\ inv.pre[inv.sources[1]] # NoCursor
  /\ getCursor(store, inv.sources[1]) = inv.pre[inv.sources[1]]
  /\ \A i \in {2, 3} : inv.sources[i] \in DOMAIN results /\ results[inv.sources[i]].ok

\* C8: the result of a disabled source is told apart from a failure. No
\* source whose credentials or configuration are absent is reported with the
\* failure shape, ok:false with a message.
C8_DisabledNotFailureShape ==
  \A S \in DOMAIN results :
    (S \in DOMAIN log /\ log[S].fault = "config")
      => ~(~results[S].ok /\ "msg" \in DOMAIN results[S])

\* C9: the cursor never moves backwards. No step of a sequence of hourly,
\* daily and fetch-latest runs makes getCursor of any source yield less than
\* before (no cursor counts as less than every instant).
C9_CursorStep == \A S \in ETL_MAP : getCursor(store', S) >= getCursor(store, S)

C9_CursorNeverBackwards == [][C9_CursorStep]_vars

\* C10: cursor frame condition. A step changes the stored cursor rows of a
\* source S only if it is the step of the runEtls loop that handles S, cursor
\* persistence was requested and S reported success; so no step of a run
\* without persistCursor, of the refresh handler or of a per-source fetch
\* handler changes a cursor row, and the write for S changes no row of
\* another source.
C10_CursorFrameStep ==
  \A S \in ETL_MAP :
    CursorRows(store', S) # CursorRows(store, S)
      => /\ inv.pc = "running"
         /\ inv.entry \notin {"refresh", "fetch-meta", "fetch-tiktok"}
         /\ inv.persistCursor
         /\ inv.sources[inv.idx] = S
         /\ S \in DOMAIN results'
         /\ results'[S].ok

C10_CursorFrame == [][C10_CursorFrameStep]_vars

\* C10 witness: a returned persisting run that left cursor rows for exactly
\* two of its three sources, the third having failed
C10_Witness ==
  /\ inv.pc = "returned" /\ inv.persistCursor /\ Len(inv.sources) = 3
  /\ Listed = Range(inv.sources)
  /\ Cardinality({S \in Listed : results[S].ok /\ CursorRows(store, S) # <<>>}) = 2
  /\ Cardinality({S \in Listed : ~results[S].ok /\ CursorRows(store, S) = <<>>}) = 1

\* C11: re-running the identical window. When an invocation that met no
\* fault has returned, and the invocation before it had the same window and
\* the same sources and met no fault either (the providers hold the same
\* records throughout), every source reports ok:true with a row count of 0
\* and the sink holds as many data rows as when the invocation started.
C11_RerunWritesNothing ==
  (inv.rerun /\ inv.pc = "returned" /\ inv.faults = 0)
    => /\ \A S \in DOMAIN results : results[S].ok /\ results[S].rows = 0
       /\ StoredRows(store) = inv.stored

\* C12: multi-page fetch into an empty sink. When the payments client has
\* run without meeting a fault in an invocation that started on a sink that
\* has the stripe_orders collection and no data row, it made one request per page, its result is ok:true with
\* rows = the sum of the page sizes, and stripe_orders holds exactly one row
\* per record of every page.
C12_StripeMultiPage ==
  (inv.entry \in {"runEtls", "refresh"} /\ inv.stored = 0
     /\ SinkHas("stripe_orders")
     /\ "stripe" \in DOMAIN log /\ log["stripe"].fault = "none")
    => /\ results["stripe"].ok
       /\ results["stripe"].rows = NumRecords
       /\ log["stripe"].reqs = IF npages = 0 THEN 1 ELSE npages
       /\ Len(store["stripe_orders"]) = NumRecords
       /\ {store["stripe_orders"][i].id : i \in DOMAIN store["stripe_orders"]}
            = AllRecords

\* C12 witness: a clean run of the payments client over MaxPages pages, the
\* first ones full, that left more rows than pages
C12_Witness ==
  /\ inv.entry = "runEtls" /\ inv.stored = 0 /\ npages = MaxPages /\ npages > 1
  /\ "stripe" \in DOMAIN log /\ log["stripe"].fault = "none"
  /\ results["stripe"].rows > npages
  /\ Len(store["stripe_orders"]) = results["stripe"].rows

\* C15: result map completeness. When runEtls (or the refresh handler's loop)
\* has returned, the result map has an entry for every source identifier of
\* the requested list, and for no other identifier.
C15_OneEntryPerRequested ==
  (inv.pc = "returned" /\ inv.entry \in {"runEtls", "refresh"})
    => DOMAIN results = Range(inv.sources)

\* C16: zero records is success. When the provider of a configured source
\* holds no record for the window and the source met no fault, its result is
\* ok:true with rows = 0, no data row was written, and in a runEtls call with
\* persistCursor getCursor yields the window's untilUtc for it.
C16_ZeroRecordsIsSuccess ==
  (inv.entry = "runEtls" /\ npages = 0)
    => \A S \in DOMAIN results :
         log[S].fault = "none"
           => /\ results[S].ok
              /\ results[S].rows = 0
              /\ StoredRows(store) = inv.stored
              /\ inv.persistCursor => getCursor(store, S) = inv.range.untilUtc

\* the part of C16 that does not rest on reading the cursor back
C16_ZeroRecordsResult ==
  (inv.entry = "runEtls" /\ npages = 0)
    => \A S \in DOMAIN results :
         log[S].fault = "none"
           => /\ results[S].ok
              /\ results[S].rows = 0
              /\ StoredRows(store) = inv.stored
              /\ (inv.persistCursor /\ backend = "relational"
                    /\ cursorImpl = "upsert")
                   => getCursor(store, S) = inv.range.untilUtc

\* C17: fail closed on undocumented responses. When a request of a source's
\* client was answered with a non-success status and a body that is not JSON,
\* the source's result is a failure, and in a runEtls call with persistCursor
\* getCursor yields for it what it yielded before the run.
C17_UndocumentedResponseFails ==
  \A S \in DOMAIN results :
    (S \in DOMAIN log /\ log[S].fault = "nonjson" /\ log[S].reqs >= log[S].at)
      => /\ ~results[S].ok
         /\ (inv.entry = "runEtls" /\ inv.persistCursor)
              => getCursor(store, S) = inv.pre[S]

\* the collections a source's client writes
SourceTables(S) ==
  IF S = "stripe" THEN {"stripe_orders"}
  ELSE IF S = "meta" THEN {"meta_insights"}
  ELSE IF S = "tiktok" THEN {"tiktok_insights"}
  ELSE IF S = "mailerlite"
  THEN {"mailerlite_subscribers", "mailerlite_group_memberships"}
  ELSE {"steam_sales"}

\* a batch write of S was not completed by the backing store: it was
\* rejected, or S submitted a batch to a collection the store does not have
BatchNotStored(S) ==
  \/ log[S].fault = "sink" /\ log[S].ups >= log[S].at
  \/ log[S].ups > 0 /\ \E t \in SourceTables(S) : ~SinkHas(t)

\* C18: sink failure fails the source. A source one of whose batch writes
\* the backing store did not complete (the write was rejected, or the target
\* tab does not exist) ends with a failed result, and in a runEtls call with
\* persistCursor its stored cursor rows are the ones it had before the run.
C18_SinkFailureFailsSource ==
  \A S \in DOMAIN results :
    (S \in DOMAIN log /\ BatchNotStored(S))
      => /\ ~results[S].ok
         /\ (inv.entry = "runEtls" /\ inv.persistCursor)
              => getCursor(store, S) = inv.pre[S]

C19_PageLinkCap ==
  "meta" \in DOMAIN log =>
    /\ log["meta"].reqs <= MetaPageCap
    /\ log["meta"].fault \in {"none", "sink", "cursor"}
         => log["meta"].reqs = IF npages = 0 THEN 1 ELSE npages
    /\ log["meta"].fault = "endless"
         => /\ log["meta"].reqs = MetaPageCap
            /\ results["meta"].ok
            /\ FetchedLine(MetaPageCap) \in results["meta"].logs

\* C19 witness: a run against an endless provider that stopped at the cap and
\* stored the records of every page that had some
C19_Witness ==
  /\ "meta" \in DOMAIN log /\ log["meta"].fault = "endless"
  /\ log["meta"].reqs = MetaPageCap /\ npages = MaxPages
  /\ results["meta"].ok
  /\ Len(store["meta_insights"]) = NumRecords /\ NumRecords > 1

\* ------------------------------------------------------------------------
\* One run of the subscribers client over a window placed anywhere around
\* the feed, the feed being empty, of up to MaxPages pages, or longer than
\* the client's page cap
\* ------------------------------------------------------------------------
FeedStamps == (DayMs - MaxPages * PageSize)..(DayMs + 1)

FeedWindows ==
  {[sinceUtc |-> a, untilUtc |-> b] : a \in FeedStamps, b \in FeedStamps}
    \cap {w \in [sinceUtc : FeedStamps, untilUtc : FeedStamps] :
            w.sinceUtc <= w.untilUtc}

InitFeed ==
  /\ Deployment
  /\ store = [c \in Collections |-> <<>>]
  /\ last = NoCall
  /\ npages \in (0..MaxPages) \cup {MailerLitePageCap + 1}
  /\ now = DayMs
  /\ inv = NoInvocation
  /\ results = EmptyMap
  /\ log = EmptyMap
  /\ NoSteps

NextFeed ==
  \/ inv.runs < 1 /\ \E w \in FeedWindows \cup {parseRange(NoCursor, NoCursor)},
                        persistCursor \in BOOLEAN :
                       runEtls(w, <<"mailerlite">>, persistCursor)
  \/ RunEtlsStep

SpecFeed == InitFeed /\ [][NextFeed]_vars

\* pages of the feed whose last record is before the window start
EarlyPages == {p \in 1..npages : CreatedAt(p, PageLen(p)) < inv.range.sinceUtc}

\* the records of the first MailerLitePageCap pages that are in the window
InWindow ==
  {x \in (1..npages) \X (1..PageSize) :
     /\ x[1] <= MailerLitePageCap /\ x[2] <= PageLen(x[1])
     /\ CreatedAt(x[1], x[2]) >= inv.range.sinceUtc
     /\ CreatedAt(x[1], x[2]) <= inv.range.untilUtc}

\* C20: early exit of the subscribers client. Every stored subscriber row has
\* its creation instant inside [sinceUtc, untilUtc]; and after a run that met
\* no fault, the client asked for the pages up to the first one whose last
\* record is before sinceUtc and for no page after it (nor after the feed's
\* last page or the 20th), every record of the first 20 pages that is inside
\* the window is stored, and rows is the number of those records.
C20_EarlyExit ==
  /\ \A i \in DOMAIN store["mailerlite_subscribers"] :
       /\ store["mailerlite_subscribers"][i].created_at >= inv.range.sinceUtc
       /\ store["mailerlite_subscribers"][i].created_at <= inv.range.untilUtc
  /\ ("mailerlite" \in DOMAIN log /\ log["mailerlite"].fault = "none")
       => /\ log["mailerlite"].reqs =
               2 + (IF npages = 0 THEN 1
                    ELSE Min({MailerLitePageCap, npages} \cup EarlyPages))
          /\ \A x \in InWindow :
               \E i \in DOMAIN store["mailerlite_subscribers"] :
                  store["mailerlite_subscribers"][i].subscriber_id = RecAt(x[1], x[2])
          /\ results["mailerlite"].ok
          /\ results["mailerlite"].rows = Cardinality(InWindow)

\* C20 witness: a clean run that stopped before the last page of the feed
\* because the page it had read ended before the window start, and that
\* stored a subscriber
C20_Witness ==
  /\ "mailerlite" \in DOMAIN log /\ log["mailerlite"].fault = "none"
  /\ npages = MaxPages /\ EarlyPages # {} /\ Min(EarlyPages) < npages
  /\ log["mailerlite"].reqs = 2 + Min(EarlyPages)
  /\ Len(store["mailerlite_subscribers"]) > 0

\* C31: country enrichment is best-effort. After a run whose IP lookups failed
\* (request error, non-JSON body or unexpected shape), the result is a
\* success, the client asked for the same pages as a clean run, every record
\* of the window is stored, and a stored subscriber has its own country when
\* it names one and a null country otherwise.
C31_GeoBestEffort ==
  ("mailerlite" \in DOMAIN log /\ log["mailerlite"].fault = "geo")
    => /\ results["mailerlite"].ok
       /\ results["mailerlite"].rows = Cardinality(InWindow)
       /\ log["mailerlite"].reqs =
            2 + (IF npages = 0 THEN 1
                 ELSE Min({MailerLitePageCap, npages} \cup EarlyPages))
       /\ \A x \in InWindow :
            \E i \in DOMAIN store["mailerlite_subscribers"] :
               /\ store["mailerlite_subscribers"][i].subscriber_id = RecAt(x[1], x[2])
               /\ store["mailerlite_subscribers"][i].country =
                    MailerLitePage(x[1])[x[2]].country

\* C31 witness: the lookups failed, and the run went on to a second page and
\* stored subscribers of both pages, one of them with a null country
C31_Witness ==
  /\ "mailerlite" \in DOMAIN log /\ log["mailerlite"].fault = "geo"
  /\ results["mailerlite"].ok
  /\ log["mailerlite"].reqs >= 4
  /\ \E i, j \in DOMAIN store["mailerlite_subscribers"] :
       /\ store["mailerlite_subscribers"][i].subscriber_id = RecAt(1, 1)
       /\ store["mailerlite_subscribers"][i].country = NULL
       /\ store["mailerlite_subscribers"][j].subscriber_id = RecAt(2, 1)

\* ------------------------------------------------------------------------
\* One client run at the grain of its await points: the request is sent, the
\* response arrives, the batch is handed to the sink.  The payments client
\* pages through Data; the storefront answers any max_id and an empty or a
\* one-record result list.
\* ------------------------------------------------------------------------
\* the longest trace a run can leave (a request, a response and a batch per
\* page or highwater id)
MaxEvents == 3 * (MaxDates * (MaxId + 1) + MaxPages + 1)

\* (mutant) the next request is sent while one is awaited
CanRequestAhead(w) == w.pc \in {"request", "await"}

\* the loop is at `await fetch(...)`: nothing of this run is in flight
CanRequest(w) == w.pc = "request"

\* (mutant) maxId >= highwatermarkId
SteamMoreOrEqual(highwatermarkId, resp) ==
  resp.maxId >= highwatermarkId /\ resp.n > 0

\* if (maxId > highwatermarkId && rawData.length > 0)
SteamMore(highwatermarkId, resp) ==
  resp.maxId > highwatermarkId /\ resp.n > 0

\* the run starts: etlStripe at its first page, etlSteamSalesApi at the first
\* of nd filtered dates with highwatermarkId = 0
WireStart(client, nd) ==
  /\ wire = NoWire
  /\ wire' = [client |-> client,
              pc |-> IF client = "steam" /\ nd = 0 THEN "done" ELSE "request",
              events |-> <<>>, inflight |-> 0, nd |-> nd, d |-> 1,
              cursor |-> IF client = "steam" THEN 0 ELSE 1,
              resp |-> [maxId |-> 0, n |-> 0]]
  /\ UNCHANGED <<backend, tabs, store, last, doc, tasks>>
  /\ UNCHANGED runVars

\* fetch(url): the request leaves
WireRequest ==
  /\ wire.client # "none"
  /\ CanRequest(wire)
  /\ Len(wire.events) < MaxEvents
  /\ wire' = [wire EXCEPT
                !.events = Append(@, [kind |-> "req", d |-> wire.d,
                                      id |-> wire.cursor, maxId |-> 0, n |-> 0]),
                !.inflight = @ + 1,
                !.pc = "await"]
  /\ UNCHANGED <<backend, tabs, store, last, doc, tasks>>
  /\ UNCHANGED runVars

\* the response arrives and is parsed
WireResponse ==
  /\ wire.client # "none"
  /\ wire.pc = "await"
  /\ \E maxId \in 0..MaxId, n \in 0..PageSize :
       /\ IF wire.client = "stripe"
          THEN maxId = 0 /\ n = Len(Data(wire.cursor))
          ELSE n <= 1
       /\ wire' = [wire EXCEPT
                     !.events = Append(@, [kind |-> "resp", d |-> wire.d,
                                           id |-> wire.cursor, maxId |-> maxId,
                                           n |-> n]),
                     !.inflight = @ - 1,
                     !.resp = [maxId |-> maxId, n |-> n],
                     !.pc = "handle"]
  /\ UNCHANGED <<backend, tabs, store, last, doc, tasks>>
  /\ UNCHANGED runVars

\* the rows of the response that is being handled
WireBatch ==
  IF wire.client = "stripe"
  THEN [i \in DOMAIN Data(wire.cursor) |-> StripeRow(Data(wire.cursor)[i])]
  ELSE [i \in 1..wire.resp.n |->
          SteamRow("date" \o ToString(wire.d), Rec(wire.cursor))]

\* where the loop goes after the batch was written
WireNext ==
  IF wire.client = "stripe"
  THEN IF wire.cursor < npages
       THEN [wire EXCEPT !.cursor = @ + 1, !.pc = "request"]
       ELSE [wire EXCEPT !.pc = "done"]
  ELSE IF SteamMore(wire.cursor, wire.resp)
       THEN [wire EXCEPT !.cursor = wire.resp.maxId, !.pc = "request"]
       ELSE IF wire.d < wire.nd
       THEN [wire EXCEPT !.d = @ + 1, !.cursor = 0, !.pc = "request"]
       ELSE [wire EXCEPT !.pc = "done"]

\* await upsert(...) of the page's rows (Steam: only when there are some),
\* then the loop test
WireHandle ==
  /\ wire.client # "none"
  /\ wire.pc = "handle"
  /\ IF wire.client = "stripe" \/ Len(WireBatch) > 0
     THEN /\ store' = (IF wire.client = "stripe"
                       THEN upsert(store, "stripe_orders", <<"id">>, StripeCols,
                                   WireBatch, TRUE)
                       ELSE upsert(store, "steam_sales", SteamKey, SteamCols,
                                   WireBatch, TRUE)).store
          /\ wire' = [WireNext EXCEPT
                        !.events = Append(@, [kind |-> "upsert", d |-> wire.d,
                                              id |-> wire.cursor, maxId |-> 0,
                                              n |-> Len(WireBatch)])]
     ELSE /\ store' = store
          /\ wire' = WireNext
  /\ UNCHANGED <<backend, tabs, last, doc, tasks>>
  /\ UNCHANGED runVars

InitWire ==
  /\ Deployment
  /\ store = [c \in Collections |-> <<>>]
  /\ last = NoCall
  /\ npages \in 0..MaxPages
  /\ now = DayMs
  /\ inv = NoInvocation
  /\ results = EmptyMap
  /\ log = EmptyMap
  /\ NoSteps

NextWire ==
  \/ \E nd \in 0..MaxDates : WireStart("steam", nd)
  \/ WireStart("stripe", 0)
  \/ WireRequest
  \/ WireResponse
  \/ WireHandle

SpecWire == InitWire /\ [][NextWire]_vars

\* the requests of the run, in the order they were sent
Reqs == SelectSeq(wire.events, LAMBDA ev : ev.kind = "req")

\* the response asks for another request on the same date
Continues(ev) == ev.maxId > ev.id /\ ev.n > 0

\* positions of the requests sent after event k
LaterReqs(k) == {j \in DOMAIN wire.events : j > k /\ wire.events[j].kind = "req"}

\* C21: highwater ids of the storefront client. For each date the ids sent
\* in successive detail requests start at 0 and are strictly increasing, so no
\* (date, id) is requested twice; after a response whose max_id is greater
\* than the id just sent and whose result list is not empty the next request
\* is for the same date with that max_id, and after any other response the
\* loop leaves the date.
C21_HighwaterIncreasing ==
  wire.client = "steam" =>
    /\ \A i \in DOMAIN Reqs :
         (i = 1 \/ Reqs[i - 1].d # Reqs[i].d) => Reqs[i].id = 0
    /\ \A i, j \in DOMAIN Reqs :
         (i < j /\ Reqs[i].d = Reqs[j].d) => Reqs[i].id < Reqs[j].id
    /\ \A k \in DOMAIN wire.events :
         wire.events[k].kind = "resp" =>
           /\ LaterReqs(k) # {} =>
                IF Continues(wire.events[k])
                THEN /\ wire.events[Min(LaterReqs(k))].d = wire.events[k].d
                     /\ wire.events[Min(LaterReqs(k))].id = wire.events[k].maxId
                ELSE wire.events[Min(LaterReqs(k))].d # wire.events[k].d
           /\ (LaterReqs(k) = {} /\ wire.pc = "done") => ~Continues(wire.events[k])

\* C21 witness: a finished run over two dates that sent three ids for one
\* date and left a date on a non-empty response whose max_id was not greater
C21_Witness ==
  /\ wire.client = "steam" /\ wire.pc = "done" /\ wire.nd = 2
  /\ \E i \in DOMAIN Reqs : Reqs[i].id = 2 /\ i >= 3
  /\ \E k \in DOMAIN wire.events :
       /\ wire.events[k].kind = "resp" /\ wire.events[k].n > 0
       /\ wire.events[k].maxId <= wire.events[k].id

\* C24: one request in flight, pages in order. At most one request of the run
\* awaits its response; a request is sent only when every earlier one was
\* answered; a batch is handed to the sink right after the response it came
\* in; and the payments rows are stored in the order of the pages.
C24_SequentialPages ==
  /\ wire.inflight <= 1
  /\ \A k \in DOMAIN wire.events :
       /\ (wire.events[k].kind = "req" /\ k > 1) => wire.events[k - 1].kind # "req"
       /\ wire.events[k].kind = "upsert" =>
            /\ k > 1
            /\ wire.events[k - 1].kind = "resp"
            /\ wire.events[k - 1].id = wire.events[k].id
            /\ wire.events[k - 1].d = wire.events[k].d
  /\ (wire.client = "stripe" /\ wire.pc = "done")
       => \A i, j \in DOMAIN store["stripe_orders"] :
            i < j => \E p, q \in 1..npages :
                       /\ p <= q
                       /\ store["stripe_orders"][i].id \in Range(Data(p))
                       /\ store["stripe_orders"][j].id \in Range(Data(q))

\* C24 witness: a finished run of the payments client over MaxPages pages
\* that handed one batch per page to the sink
C24_Witness ==
  /\ wire.client = "stripe" /\ wire.pc = "done" /\ npages = MaxPages /\ npages > 1
  /\ Len(SelectSeq(wire.events, LAMBDA ev : ev.kind = "upsert")) = npages
  /\ Len(store["stripe_orders"]) = NumRecords

\* ------------------------------------------------------------------------
\* Concurrent callers of the flat sink.  Each call of upsert runs from one
\* await to the next in one step: getDoc, then sheet.getRows() with the
\* check of the batch against the keys read, then sheet.addRows(newRows).
\* ------------------------------------------------------------------------
Tasks == 1..MaxTasks

\* a caller that has not called upsert yet
IdleTask ==
  [pc |-> "idle", rows |-> <<>>, existingKeys |-> {}, racedWith |-> {},
   gotDoc |-> FALSE, sawLoaded |-> FALSE, rowCount |-> 0, err |-> FALSE]

\* the synchronous part of getDoc(): the promise version starts the
\* construction and the metadata load when docPromise is null; the instance
\* version returns docInstance when it is set, and otherwise sets it and
\* starts the load
getDoc(d) ==
  IF d.state = "null"
  THEN [d EXCEPT !.state = "loading", !.built = @ + 1, !.loads = @ + 1]
  ELSE d

\* whether the caller of getDoc gets the document without waiting for the load
ReturnsAtOnce(d) == d.impl = "instance" /\ d.state # "null"

\* upsert(table, conflictCols, dataCols, rows) is called: up to the await of
\* getDoc()
TaskCall(t, rows) ==
  /\ tasks[t].pc = "idle"
  /\ IF Len(rows) = 0
     THEN /\ tasks' = [tasks EXCEPT ![t].pc = "done"]
          /\ doc' = doc
     ELSE /\ doc' = getDoc(doc)
          /\ tasks' = [tasks EXCEPT
                         ![t].rows = rows,
                         ![t].pc = IF ReturnsAtOnce(doc) THEN "gotDoc" ELSE "awaitDoc",
                         ![t].gotDoc = ReturnsAtOnce(doc),
                         ![t].sawLoaded = ReturnsAtOnce(doc) /\ doc.state = "loaded"]
  /\ UNCHANGED <<backend, tabs, store, last, wire>>
  /\ UNCHANGED runVars

\* doc.loadInfo() completes
LoadInfoDone ==
  /\ doc.state = "loading"
  /\ doc' = [doc EXCEPT !.state = "loaded"]
  /\ UNCHANGED <<backend, tabs, store, last, tasks, wire>>
  /\ UNCHANGED runVars

\* doc.loadInfo() rejects: nothing resets docPromise / docInstance
LoadInfoFails ==
  /\ doc.state = "loading"
  /\ doc' = [doc EXCEPT !.state = "failed"]
  /\ UNCHANGED <<backend, tabs, store, last, tasks, wire>>
  /\ UNCHANGED runVars

\* the awaited getDoc() settles: the caller gets the loaded document, or the
\* rejection of the load, which upsert passes on
TaskGetsDoc(t) ==
  /\ tasks[t].pc = "awaitDoc"
  /\ doc.state \in {"loaded", "failed"}
  /\ tasks' = IF doc.state = "loaded"
              THEN [tasks EXCEPT ![t].pc = "gotDoc", ![t].gotDoc = TRUE,
                                 ![t].sawLoaded = TRUE]
              ELSE [tasks EXCEPT ![t].pc = "done", ![t].err = TRUE]
  /\ UNCHANGED <<backend, tabs, store, last, doc, wire>>
  /\ UNCHANGED runVars

\* the keys of the sheet rows: existingKeys after the forEach
SheetKeys(st, table, conflictCols) ==
  {RowKey(st[table][i], conflictCols) : i \in DOMAIN st[table]}

\* (mutant) the rows to append are checked against the sheet as it is when
\* they are appended
NewRowsAtAppend(st, task) ==
  FlatNewRows(task.rows, SheetKeys(st, SinkTable, SinkKeyCols), SinkKeyCols,
              SinkDataCols)

\* newRows: the batch rows whose key was not among the keys read
NewRows(st, task) ==
  FlatNewRows(task.rows, task.existingKeys, SinkKeyCols, SinkDataCols)

\* doc.sheetsByTitle[tabName], sheet.getRows() and the loop over the batch.
\* A document whose metadata is not loaded has no tab to offer: the call ends
\* there, raising or reporting rowCount 0.
TaskRead(t) ==
  /\ tasks[t].pc = "gotDoc"
  /\ IF ~tasks[t].sawLoaded
     THEN \E raises \in BOOLEAN :
            tasks' = [tasks EXCEPT ![t].pc = "done", ![t].err = raises]
     ELSE IF TabName(SinkTable) \notin tabs
     THEN tasks' = [tasks EXCEPT ![t].pc = "done"]
     ELSE tasks' = [tasks EXCEPT
                      ![t].existingKeys = SheetKeys(store, SinkTable, SinkKeyCols),
                      ![t].racedWith = {u \in Tasks \ {t} : tasks[u].pc = "append"},
                      ![t].pc = "append"]
  /\ UNCHANGED <<backend, tabs, store, last, doc, wire>>
  /\ UNCHANGED runVars

\* if (newRows.length > 0) await sheet.addRows(newRows); return { rowCount }
TaskAppend(t) ==
  /\ tasks[t].pc = "append"
  /\ store' = [store EXCEPT ![SinkTable] = @ \o NewRows(store, tasks[t])]
  /\ tasks' = [tasks EXCEPT ![t].pc = "done",
                            ![t].rowCount = Len(NewRows(store, tasks[t]))]
  /\ UNCHANGED <<backend, tabs, last, doc, wire>>
  /\ UNCHANGED runVars

InitConc ==
  /\ backend = "flat"
  /\ tabs = {SinkTable}
  /\ store = [c \in Collections |-> <<>>]
  /\ last = NoCall
  /\ cursorImpl = "upsert"
  /\ npages = 0
  /\ now = 0
  /\ inv = NoInvocation
  /\ results = EmptyMap
  /\ log = EmptyMap
  /\ doc \in {NoDoc("promise"), NoDoc("instance")}
  /\ tasks = [t \in Tasks |-> IdleTask]
  /\ wire = NoWire
  /\ eval = NoEval

NextConc ==
  \/ \E t \in Tasks, rows \in SinkBatches : TaskCall(t, rows)
  \/ LoadInfoDone
  \/ LoadInfoFails
  \/ \E t \in Tasks : TaskGetsDoc(t)
  \/ \E t \in Tasks : TaskRead(t)
  \/ \E t \in Tasks : TaskAppend(t)

SpecConc == InitConc /\ [][NextConc]_vars

\* the key projections of the rows a call found new when it read the sheet
NewKeys(task) ==
  {KeyProj(r, SinkKeyCols) :
     r \in Range(FlatNewRows(task.rows, task.existingKeys, SinkKeyCols,
                             SinkDataCols))}

\* C22: read-then-append race of the flat sink. When a call read the sheet
\* while another call had read it and not yet appended, every key that both
\* found new is stored twice once both have appended; and as long as no call
\* read the sheet between the read and the append of another call, no key is
\* stored twice.
C22_ReadAppendRace ==
  /\ (\A t \in DOMAIN tasks : tasks[t].racedWith = {})
       => \A i, j \in DOMAIN store[SinkTable] :
            i # j => KeyProj(store[SinkTable][i], SinkKeyCols)
                       # KeyProj(store[SinkTable][j], SinkKeyCols)
  /\ \A t \in DOMAIN tasks : \A u \in tasks[t].racedWith :
       (tasks[t].pc = "done" /\ tasks[u].pc = "done")
         => \A k \in NewKeys(tasks[t]) \cap NewKeys(tasks[u]) :
              Cardinality(RowsWithKey(k)) >= 2

\* C22 witness: two calls with the same new key, both finished, the second
\* having read the sheet before the first appended, and the key stored twice
C22_Witness ==
  \E t \in DOMAIN tasks : \E u \in tasks[t].racedWith :
    /\ tasks[t].pc = "done" /\ tasks[u].pc = "done"
    /\ \E k \in NewKeys(tasks[t]) \cap NewKeys(tasks[u]) :
         Cardinality(RowsWithKey(k)) = 2

\* C23: lazy initialisation of the sink handle. Whatever the interleaving of
\* the callers, the document is constructed and its metadata load started at
\* most once, and every caller that got the document got it with its
\* metadata loaded.
C23_LazyInitOnce ==
  /\ doc.built <= 1
  /\ doc.loads <= 1
  /\ \A t \in DOMAIN tasks : tasks[t].gotDoc => tasks[t].sawLoaded

\* the same for the getDoc of lib/db.js, which keeps the promise
C23_PromiseVersion == doc.impl = "promise" => C23_LazyInitOnce

\* C37: recovery of the sink handle. A call of getDoc made after the
\* metadata load failed starts a fresh initialisation: the document is
\* constructed and loaded again.
C37_FreshInitStep ==
  (doc.state = "failed"
     /\ \E t \in DOMAIN tasks :
          tasks[t].pc = "idle" /\ tasks'[t].pc \in {"awaitDoc", "gotDoc"})
    => (doc'.loads = doc.loads + 1 /\ doc'.state = "loading")

C37_FreshInit == [][C37_FreshInitStep]_vars

\* no call made after the load failed ever appends a row
C37_NoUpsertAfterFailure ==
  doc.state = "failed" => \A t \in DOMAIN tasks : tasks[t].pc # "append"

\* ------------------------------------------------------------------------
\* Row mappings and window computations, each evaluated on its own inputs
\* ------------------------------------------------------------------------
MaxMetric == 3      \* largest impressions / clicks / spend of an insights record
MaxDay == 3         \* the clock starts within the first MaxDay days after day 0

\* the addresses provider records carry: two that differ in letter case only
\* and a third one
Emails == {"Ann@x.io", "ann@x.io", "bob@y.io"}

\* String.prototype.toLowerCase
toLowerCase(s) == IF s = "Ann@x.io" THEN "ann@x.io" ELSE s

\* crypto.createHash("sha256").update(v).digest("hex"): the digest tells the
\* inputs apart and holds none of them
sha256(v) ==
  CASE v = "Ann@x.io" -> "5e0c"
    [] v = "ann@x.io" -> "91b7"
    [] v = "bob@y.io" -> "c2d4"

hashEmail(email) == sha256(toLowerCase(email))

\* a Checkout Session / a subscriber as the provider returns it
ProviderRecords == [id : {"r1", "r2"}, email : Emails \cup {NULL}]

\* etlStripe: the callback of (data.data || []).map, on the columns that
\* concern the customer's address (email is customer_details?.email)
StripeMap(s) ==
  [id |-> s.id,
   customer_email_hash |-> IF s.email # NULL THEN hashEmail(s.email) ELSE NULL,
   checkout_session_id |-> s.id,
   raw |-> s]

\* etlMailerLite: the callback of relevantSubs.map, likewise
MailerLiteMap(s) ==
  [subscriber_id |-> s.id,
   email_hash |-> IF s.email # NULL THEN sha256(toLowerCase(s.email)) ELSE NULL,
   raw |-> s]

\* one evaluation: the instant, the inputs and the value
Evaluated(fn, in, out) == [fn |-> fn, at |-> now, in |-> in, out |-> out]

evalFrame == <<backend, tabs, store, last, cursorImpl, npages, now, inv, results, log,
               doc, tasks, wire>>

EvalStripeMap ==
  \E s \in ProviderRecords :
    /\ eval' = Evaluated("StripeMap", s, StripeMap(s))
    /\ UNCHANGED evalFrame

EvalMailerLiteMap ==
  \E s \in ProviderRecords :
    /\ eval' = Evaluated("MailerLiteMap", s, MailerLiteMap(s))
    /\ UNCHANGED evalFrame

\* every scalar a row holds, the ones nested in its raw payload included
Cells(row) ==
  {row[c] : c \in DOMAIN row \ {"raw"}} \cup {row.raw[c] : c \in DOMAIN row.raw}

\* C25: no column of a row the payments or the email-platform client submits,
\* the nested raw payload included, holds the plaintext address of the
\* provider record
C25_NoPlaintextEmail ==
  (eval.fn \in {"StripeMap", "MailerLiteMap"} /\ eval.in.email # NULL)
    => eval.in.email \notin Cells(eval.out)

\* the clock of an evaluation: any instant of days 1..MaxDay, midnights included
Instants == DayMs .. ((MaxDay + 1) * DayMs - 1)

\* since / until of a request body: absent, or an instant
BodyInstants == {NoCursor} \cup (0 .. ((MaxDay + 1) * DayMs - 1))

EvalParseRange ==
  \E since, until \in BodyInstants :
    /\ eval' = Evaluated("parseRange", [since |-> since, until |-> until],
                         parseRange(since, until))
    /\ UNCHANGED evalFrame

EvalCronHourly ==
  /\ eval' = Evaluated("cron-hourly", <<>>, CronHourlyRange)
  /\ UNCHANGED evalFrame

EvalCronDaily ==
  /\ eval' = Evaluated("cron-daily", <<>>, CronDailyRange)
  /\ UNCHANGED evalFrame

\* C26: every window the entry points hand to the clients has
\* sinceUtc <= untilUtc: parseRange on an explicit since and/or until or on
\* neither, the hourly schedule, the daily schedule
C26_SinceBeforeUntil ==
  eval.fn \in {"parseRange", "cron-hourly", "cron-daily"}
    => eval.out.sinceUtc <= eval.out.untilUtc

\* the windows of the two schedules and of parseRange without an explicit
\* since are ordered
C26_SchedulesOrdered ==
  (\/ eval.fn \in {"cron-hourly", "cron-daily"}
   \/ eval.fn = "parseRange" /\ eval.in.since = NoCursor)
    => eval.out.sinceUtc <= eval.out.untilUtc

\* C27: with no explicit since and no explicit until, parseRange yields
\* until = the invocation time and since = until minus 30 days, so that
\* until - 30 days <= since < until
C27_FallbackWindow ==
  (eval.fn = "parseRange" /\ eval.in.since = NoCursor /\ eval.in.until = NoCursor)
    => /\ eval.out.untilUtc = eval.at
       /\ eval.out.sinceUtc = eval.out.untilUtc - 30 * DayMs
       /\ eval.out.untilUtc - 30 * DayMs <= eval.out.sinceUtc
       /\ eval.out.sinceUtc < eval.out.untilUtc

C27_Witness ==
  /\ eval.fn = "parseRange"
  /\ eval.in.since = NoCursor /\ eval.in.until = NoCursor
  /\ eval.out.untilUtc = eval.at

\* C29: the window of the daily schedule is the UTC day before the day of the
\* invocation: it starts on a day boundary, ends DayMs - 1 later, and the
\* invocation falls in the day that follows it
C29_DailyWindow ==
  eval.fn = "cron-daily"
    => /\ eval.out.sinceUtc % DayMs = 0
       /\ eval.out.untilUtc - eval.out.sinceUtc = DayMs - 1
       /\ eval.out.sinceUtc + DayMs <= eval.at
       /\ eval.at < eval.out.sinceUtc + 2 * DayMs

\* the daily schedule invoked at midnight UTC
C29_Witness ==
  /\ eval.fn = "cron-daily"
  /\ eval.at % DayMs = 0
  /\ eval.out.untilUtc = eval.at - 1

\* an insights record of an ad platform
Insights == [impressions : 0..MaxMetric, clicks : 0..MaxMetric, spend : 0..MaxMetric]

RECURSIVE GCD(_, _)
GCD(a, b) == IF b = 0 THEN a ELSE GCD(b, a % b)

\* the JS number a / b for b > 0, kept as the fraction in lowest terms
\* (the rounding of the double is left out)
Quot(a, b) == [num |-> a \div GCD(a, b), den |-> b \div GCD(a, b)]

\* null
NullMetric == [null |-> TRUE]

\* etlTikTok: the callback of list.map, on the delivery columns
TikTokMap(r) ==
  [impressions |-> r.impressions, clicks |-> r.clicks, spend |-> r.spend,
   cpm |-> IF r.impressions > 0 THEN Quot(r.spend * 1000, r.impressions) ELSE NullMetric,
   cpc |-> IF r.clicks > 0 THEN Quot(r.spend, r.clicks) ELSE NullMetric,
   raw |-> r]

\* etlMeta of lib/etl.js (ad level): the callback of (json.data || []).map
MetaAdMap(r) ==
  [impressions |-> r.impressions, clicks |-> r.clicks, spend |-> r.spend,
   cpm |-> IF r.impressions > 0 THEN Quot(r.spend * 1000, r.impressions) ELSE NullMetric,
   cpc |-> IF r.clicks > 0 THEN Quot(r.spend, r.clicks) ELSE NullMetric,
   raw |-> r]

\* etlMeta with the page loop (ad-set level by country): the callback of
\* (json.data || []).map; the row has no cpm and no cpc property
MetaMap(r) ==
  [impressions |-> r.impressions, clicks |-> r.clicks, spend |-> r.spend, raw |-> r]

EvalTikTokMap ==
  \E r \in Insights :
    /\ eval' = Evaluated("TikTokMap", r, TikTokMap(r))
    /\ UNCHANGED evalFrame

EvalMetaAdMap ==
  \E r \in Insights :
    /\ eval' = Evaluated("MetaAdMap", r, MetaAdMap(r))
    /\ UNCHANGED evalFrame

EvalMetaMap ==
  \E r \in Insights :
    /\ eval' = Evaluated("MetaMap", r, MetaMap(r))
    /\ UNCHANGED evalFrame

\* a derived column of a row: an absent property is written as a blank
Metric(row, col) == IF col \in DOMAIN row THEN row[col] ELSE NullMetric

\* v is the quotient a / b
IsQuotient(v, a, b) == v # NullMetric /\ v.num * b = a * v.den

\* the derived metrics of a row are the ones the claim states
DerivedMetrics(row) ==
  /\ row.clicks = 0 => Metric(row, "cpc") = NullMetric
  /\ row.clicks # 0 => IsQuotient(Metric(row, "cpc"), row.spend, row.clicks)
  /\ row.impressions = 0 => Metric(row, "cpm") = NullMetric
  /\ row.impressions # 0
       => IsQuotient(Metric(row, "cpm"), row.spend * 1000, row.impressions)

\* C30: in every row of either ad platform, cost-per-click is null when
\* clicks = 0 and spend / clicks otherwise, and cost-per-mille is null when
\* impressions = 0 and spend / impressions * 1000 otherwise
C30_DerivedMetrics ==
  eval.fn \in {"TikTokMap", "MetaAdMap", "MetaMap"} => DerivedMetrics(eval.out)

\* the rows of etlTikTok and of the ad-level etlMeta carry those metrics
C30_TikTokAndAdLevel ==
  eval.fn \in {"TikTokMap", "MetaAdMap"} => DerivedMetrics(eval.out)

\* ---- etlSteamSalesApi: which dates it asks details for, which rows it writes
\* sinceUtc.slice(0, 10): the UTC date of an instant. Dates are day numbers
\* here; the code compares them as zero-padded YYYY-MM-DD strings
DateOf(t) == t \div DayMs

\* (mutant) every changed date is kept
changedDatesKept(changedDates, sinceUtc, untilUtc) == changedDates

\* changedDates.filter(d => dateStr >= sinceUtc.slice(0, 10) &&
\*                          dateStr <= untilUtc.slice(0, 10))
filteredDates(changedDates, sinceUtc, untilUtc) ==
  {d \in changedDates : d >= DateOf(sinceUtc) /\ d <= DateOf(untilUtc)}

\* STEAM_APP_ID = "app,dlc"
targetAppIds == {"app", "dlc"}

\* a line of the detailed sales report
SalesRecords == [primary_appid : {NULL, "app", "other"}, appid : {NULL, "dlc", "other"}]

\* String(r.primary_appid || r.appid || '')
AppIdOf(r) ==
  IF r.primary_appid # NULL THEN r.primary_appid
  ELSE IF r.appid # NULL THEN r.appid ELSE ""

\* rawData.filter(r => targetAppIds.includes(id))
relevantRows(rawData) == SelectSeq(rawData, LAMBDA r : AppIdOf(r) \in targetAppIds)

\* relevantRows.map(r => ({ date, app_id: String(r.primary_appid || r.appid), ... }))
rowsToUpsert(date, rows) ==
  [i \in DOMAIN rows |-> [date |-> date, app_id |-> AppIdOf(rows[i]), raw |-> rows[i]]]

\* one run against a storefront that names changedDates and answers every
\* detail request with rawData: the dates asked for and the rows written
EvalSteam ==
  \E changedDates \in SUBSET (1..MaxDay), sinceUtc, untilUtc \in Instants,
     rawData \in {<<>>} \cup {<<r>> : r \in SalesRecords} :
    /\ sinceUtc <= untilUtc
    /\ eval' = Evaluated("etlSteamSalesApi",
                         [changedDates |-> changedDates, sinceUtc |-> sinceUtc,
                          untilUtc |-> untilUtc, rawData |-> rawData],
                         [requests |-> filteredDates(changedDates, sinceUtc, untilUtc),
                          rows |-> UNION {Range(rowsToUpsert(d, relevantRows(rawData))) :
                                            d \in filteredDates(changedDates, sinceUtc,
                                                                untilUtc)}])
    /\ UNCHANGED evalFrame

\* C34: every row the storefront client writes has a date within
\* [date(sinceUtc), date(untilUtc)] and the app id of a configured target,
\* and details are asked only for changed dates within that range
C34_RowsWithinRequest ==
  eval.fn = "etlSteamSalesApi"
    => /\ \A row \in eval.out.rows :
            /\ DateOf(eval.in.sinceUtc) <= row.date
            /\ row.date <= DateOf(eval.in.untilUtc)
            /\ row.app_id \in targetAppIds
       /\ \A d \in eval.out.requests :
            /\ d \in eval.in.changedDates
            /\ DateOf(eval.in.sinceUtc) <= d /\ d <= DateOf(eval.in.untilUtc)

\* C34 witness: the storefront named a date before, a date inside and a date
\* after the window, and the run wrote a row
C34_Witness ==
  /\ eval.fn = "etlSteamSalesApi"
  /\ \E a, b, c \in eval.in.changedDates :
       /\ a < DateOf(eval.in.sinceUtc) /\ c > DateOf(eval.in.untilUtc)
       /\ eval.out.requests = {b}
  /\ eval.out.rows # {}

InitEval ==
  /\ backend = "relational" /\ cursorImpl = "upsert" /\ tabs = {}
  /\ store = [c \in Collections |-> <<>>]
  /\ last = NoCall
  /\ npages = 0
  /\ now \in Instants
  /\ inv = NoInvocation
  /\ results = EmptyMap
  /\ log = EmptyMap
  /\ NoSteps

NextEval ==
  \/ EvalStripeMap
  \/ EvalMailerLiteMap
  \/ EvalParseRange
  \/ EvalCronHourly
  \/ EvalCronDaily
  \/ EvalTikTokMap
  \/ EvalMetaAdMap
  \/ EvalMetaMap

SpecEval == InitEval /\ [][NextEval]_vars

\* the storefront client evaluated on its own
InitSteam == InitEval /\ now = DayMs

NextSteam == eval = NoEval /\ EvalSteam

SpecSteam == InitSteam /\ [][NextSteam]_vars

\* C28: when fetch-latest starts, its window has until = the invocation time
\* and, for each requested source, since = the cursor stored for that source,
\* or until minus 30 days when it has none
C28_SinceIsOwnCursor ==
  [][(inv'.runs = inv.runs + 1 /\ inv'.entry = "fetch-latest")
       => /\ inv'.range.untilUtc = now
          /\ \A i \in DOMAIN inv'.sources :
               inv'.sources[i] \in ETL_MAP
                 => inv'.range.sinceUtc =
                      IF getCursor(store, inv'.sources[i]) # NoCursor
                      THEN getCursor(store, inv'.sources[i])
                      ELSE inv'.range.untilUtc - 30 * DayMs]_vars

\* ------------------------------------------------------------------------
\* Runs of one source over one window, one after the other (a run and its
\* retry), against providers that hold up to MaxPages pages
\* ------------------------------------------------------------------------
RetryWindow == [sinceUtc |-> 0, untilUtc |-> DayMs]

InitRetry ==
  /\ Deployment
  /\ store = [c \in Collections |-> <<>>]
  /\ last = NoCall
  /\ npages \in 1..MaxPages
  /\ now = DayMs
  /\ inv = NoInvocation
  /\ results = EmptyMap
  /\ log = EmptyMap
  /\ NoSteps

NextRetry ==
  \/ inv.runs < MaxRuns /\ \E S \in ETL_MAP : runEtls(RetryWindow, <<S>>, TRUE)
  \/ RunEtlsStep

SpecRetry == InitRetry /\ [][NextRetry]_vars

\* the collection that holds the records of a source, and its key columns
MainTable(S) ==
  IF S = "mailerlite" THEN "mailerlite_subscribers"
  ELSE CHOOSE t \in SourceTables(S) : TRUE

SourceKey(S) ==
  CASE S = "stripe" -> <<"id">>
    [] S = "meta" -> MetaKey
    [] S = "tiktok" -> TikTokKey
    [] S = "mailerlite" -> <<"subscriber_id">>
    [] S = "steam" -> SteamKey

\* the sink holds one row for every key the provider has in the window
OneRowPerKey(S) ==
  /\ Len(store[MainTable(S)]) = Upstream(S)
  /\ \A i, j \in DOMAIN store[MainTable(S)] :
       i # j => KeyProj(store[MainTable(S)][i], SourceKey(S))
                  # KeyProj(store[MainTable(S)][j], SourceKey(S))

\* the second run of the behaviour was a clean, successful run of S, and the
\* run before it was a run of S that failed after it had written rows
Retried(S) ==
  /\ inv.pc = "returned" /\ inv.runs = 2 /\ inv.sources = <<S>>
  /\ S \in DOMAIN inv.prev /\ ~inv.prev[S].ok /\ inv.stored > 0
  /\ S \in DOMAIN log /\ log[S].fault = "none"
  /\ S \in DOMAIN results /\ results[S].ok

\* C32: retry after failure. When a run of S over W failed after some of its
\* pages were written and the next run of S over W succeeds against the same upstream data, the sink holds exactly
\* one row for every key the provider has in W, the failed run left the
\* cursor as it was, and the second run advanced it to the end of W.
C32_RetryCompletes ==
  \A S \in ETL_MAP :
    Retried(S) => /\ OneRowPerKey(S)
                  /\ inv.pre[S] = NoCursor
                  /\ getCursor(store, S) = inv.range.untilUtc

\* after such a retry the sink holds one row per key, and the failed run
\* wrote no cursor
C32_RetryRows ==
  \A S \in ETL_MAP : Retried(S) => OneRowPerKey(S) /\ inv.pre[S] = NoCursor

\* ------------------------------------------------------------------------
\* The run state of a source within one invocation
\* ------------------------------------------------------------------------
\* where a requested source stands in the invocation: its result is in the
\* map (ok: SUCCEEDED; absent credentials: SKIPPED; otherwise FAILED), the
\* loop is at it, or the loop has not come to it
Phase(S) ==
  IF S \in DOMAIN results
  THEN IF results[S].ok THEN "SUCCEEDED"
       ELSE IF log[S].fault = "config" THEN "SKIPPED" ELSE "FAILED"
  ELSE IF inv.pc = "running" /\ inv.sources[inv.idx] = S THEN "RUNNING"
  ELSE "PENDING"

\* within one runEtls call a source moves PENDING -> RUNNING -> one terminal
\* state and stays there
C33_PhaseStep ==
  \A S \in Listed :
    (inv.entry = "runEtls" /\ inv'.runs = inv.runs /\ Phase(S)' # Phase(S))
      => \/ Phase(S) = "PENDING" /\ Phase(S)' = "RUNNING"
         \/ Phase(S) = "RUNNING" /\ Phase(S)' \in {"SUCCEEDED", "FAILED", "SKIPPED"}

C33_PhaseOrder == [][C33_PhaseStep]_vars

\* C33: state machine and termination. The providers hold finite datasets and
\* answer every request, so every iteration of the loop ends; when the loop
\* of a runEtls call has stopped, the call has returned and every requested
\* source is in exactly one terminal state.
C33_EverySourceEnds ==
  (inv.entry = "runEtls" /\ inv.pc # "running")
    => /\ inv.pc = "returned"
       /\ \A S \in Listed : Phase(S) \in {"SUCCEEDED", "FAILED", "SKIPPED"}

\* ------------------------------------------------------------------------
\* What a reported success covers
\* ------------------------------------------------------------------------
\* C36: success implies completeness. When a source reports ok:true for the
\* window and its collections exist in the sink, it did not stop at a page cap
\* with a next link outstanding, and the sink holds every record the provider
\* has in the window.
C36_SuccessIsComplete ==
  \A S \in DOMAIN results \cap ETL_MAP :
    (inv.entry = "runEtls" /\ results[S].ok /\ \A t \in SourceTables(S) : SinkHas(t))
      => /\ log[S].fault # "endless"
         /\ Len(store[MainTable(S)]) = Upstream(S)

\* ------------------------------------------------------------------------
\* The page loop of etlStripe against a server that answers as it likes:
\* each response carries any number of sessions not served before, up to
\* PageSize, with has_more set or not, or is an error
\* ------------------------------------------------------------------------
MaxRequests == 3    \* requests of one run

\* the id of the k-th session the server serves
SessionId(k) == "cs_" \o ToString(k)

\* after `let more = true; let starting_after = null; let total = 0`: url is
\* the starting_after parameter of the URL object (NULL: not set), served the
\* number of sessions the server has served
InitPager ==
  /\ Deployment
  /\ store = [c \in Collections |-> <<>>]
  /\ last = NoCall
  /\ npages = 0
  /\ now = DayMs
  /\ inv = NoInvocation
  /\ results = EmptyMap
  /\ log = EmptyMap
  /\ doc = NoDoc("promise")
  /\ tasks = <<>>
  /\ eval = NoEval
  /\ wire = [client |-> "stripe", pc |-> "request", more |-> TRUE,
             starting_after |-> NULL, url |-> NULL, total |-> 0, served |-> 0,
             reqs |-> <<>>]

\* while (more) { if (starting_after) url.searchParams.set(...); fetch(url)
PagerRequest ==
  /\ wire.pc = "request"
  /\ wire.more
  /\ Len(wire.reqs) < MaxRequests
  /\ wire' = [wire EXCEPT
                !.url = IF wire.starting_after # NULL THEN wire.starting_after
                        ELSE @,
                !.reqs = Append(@, IF wire.starting_after # NULL
                                   THEN wire.starting_after ELSE wire.url),
                !.pc = "await"]
  /\ UNCHANGED <<backend, tabs, store, last, doc, tasks>>
  /\ UNCHANGED runVars

\* the response arrives: a non-2xx status makes the client throw
PagerError ==
  /\ wire.pc = "await"
  /\ wire' = [wire EXCEPT !.pc = "thrown"]
  /\ UNCHANGED <<backend, tabs, store, last, doc, tasks>>
  /\ UNCHANGED runVars

\* the response arrives with n sessions and has_more: the batch is written,
\* more = data.has_more, starting_after = the id of the last session or null
PagerPage(n, has_more) ==
  /\ wire.pc = "await"
  /\ store' = upsert(store, "stripe_orders", <<"id">>, StripeCols,
                     [i \in 1..n |-> StripeRow(SessionId(wire.served + i))],
                     TRUE).store
  /\ wire' = [wire EXCEPT
                !.total = @ + n,
                !.served = @ + n,
                !.more = has_more,
                !.starting_after = IF n > 0 THEN SessionId(wire.served + n)
                                   ELSE NULL,
                !.pc = IF has_more THEN "request" ELSE "done"]
  /\ UNCHANGED <<backend, tabs, last, doc, tasks>>
  /\ UNCHANGED runVars

NextPager ==
  \/ PagerRequest
  \/ PagerError
  \/ \E n \in 0..PageSize, has_more \in BOOLEAN : PagerPage(n, has_more)

SpecPager == InitPager /\ [][NextPager]_vars

\* C40: the payments client never issues two consecutive requests with the
\* same starting_after value, whatever the server answers.
C40_CursorMoves ==
  wire.client = "stripe" =>
    \A i \in 1..(Len(wire.reqs) - 1) : wire.reqs[i] # wire.reqs[i + 1]

\* the loop ends with the response that has has_more unset
C40_EndsWhenNoMoreStep ==
  (wire.pc = "await" /\ wire'.pc \notin {"await", "thrown"} /\ ~wire'.more)
    => wire'.pc = "done"

C40_EndsWhenNoMore == [][C40_EndsWhenNoMoreStep]_vars

====
